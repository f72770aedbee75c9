------------------------------ MODULE MCExecution ------------------------------
(* Instances of ExecutionExchange for TLC. *)
EXTENDS ExecutionExchange

CONSTANTS d1, d2, python, net, stdout

OperatorPolicy ==
    [ peers |-> {"a"}, packages |-> {python}, max_timeout |-> 2, max_output |-> 2,
      max_args |-> 1, max_files |-> 1, max_bytes |-> 4, env |-> {}, reserved |-> {},
      network |-> {} ]

\* A request for one byte of output and a file within the policy's four bytes.
Modest == [ from |-> "a", parses |-> TRUE, package |-> python, timeout |-> 1, output |-> 1,
            args |-> 1, files |-> <<[size |-> 3, base64 |-> TRUE, confined |-> TRUE]>>,
            env |-> {}, network |-> {}, grants_well_formed |-> TRUE ]

\* One that asks for the network as well.
Greedy == [Modest EXCEPT !.network = {net}, !.output = DefaultOutput]

\* One the policy passes and the executor refuses.
Escaping == [Modest EXCEPT !.files = <<[size |-> 1, base64 |-> TRUE, confined |-> FALSE]>>]

SomeTerms ==
    {[payload |-> Modest, contract |-> b] : b \in {NoBinding, d1}}
        \cup {[payload |-> Greedy, contract |-> d1], [payload |-> Escaping, contract |-> d2]}

Revisions == <<d1, d2>>
================================================================================
