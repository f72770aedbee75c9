---------------------------- MODULE ExecutionPolicy ----------------------------
(***************************************************************************)
(* What the operator's policy lets through: `authorize` in                 *)
(* src/infra/wasmer/src/execution.rs, and `validate` in lib.rs, which the  *)
(* executor asks again.  Names and contents are abstracted to what the     *)
(* checks look at.                                                         *)
(***************************************************************************)
EXTENDS Integers, Sequences, SequencesExt, ContractView

CONSTANTS
    Policy,        \* ExecutionPolicy
    Supported      \* WasmerCliExecutor.allowed_packages

ASSUME PolicyAssumption ==
    Policy.max_output \in Nat /\ Policy.max_args \in Nat /\ Policy.max_files \in Nat

DefaultOutput == -1    \* max_output_bytes: None

OutputLimit(p) == IF p.output = DefaultOutput THEN Policy.max_output ELSE p.output

\* The size the base64 text of a file suggests before it is decoded: whole groups
\* of three bytes.
EncodedSize(file) == 3 * ((file.size + 2) \div 3)

TotalSize(files, i) == FoldLeft(LAMBDA sum, f : sum + f.size, 0, SubSeq(files, 1, i))

TooLarge(files, i) == \/ EncodedSize(files[i]) > Policy.max_bytes
                      \/ TotalSize(files, i) > Policy.max_bytes

\* The first file that is refused decides the denial.
FirstRefused(files) ==
    {i \in DOMAIN files : /\ TooLarge(files, i) \/ ~ files[i].base64
                          /\ \A j \in 1 .. i - 1 : files[j].base64 /\ ~ TooLarge(files, j)}

SizeRefused(files) ==
    \E i \in FirstRefused(files) :
        EncodedSize(files[i]) > Policy.max_bytes \/ files[i].base64

UnboundRuns(p, contract) ==    \* mutant
    { [rank |-> 2, code |-> "PeerNotAllowed", refuses |-> p.from \notin Policy.peers] }

\* The checks of authorize, ranked in the order they are made.
Checks(p, contract) ==
    { [rank |-> 1, code |-> "Unbound", refuses |-> contract = NoBinding],
      [rank |-> 2, code |-> "PeerNotAllowed", refuses |-> p.from \notin Policy.peers],
      [rank |-> 3, code |-> "Malformed", refuses |-> ~ p.parses],
      [rank |-> 4, code |-> "PackageNotAllowed", refuses |-> p.package \notin Policy.packages],
      [rank |-> 5, code |-> "TimeoutOutOfPolicy",
       refuses |-> p.timeout \notin 1 .. Policy.max_timeout],
      [rank |-> 6, code |-> "OutputLimitOutOfPolicy",
       refuses |-> OutputLimit(p) \notin 1 .. Policy.max_output],
      [rank |-> 7, code |-> "TooManyArgs", refuses |-> p.args > Policy.max_args],
      [rank |-> 8, code |-> "TooManyFiles", refuses |-> Len(p.files) > Policy.max_files],
      [rank |-> 9, code |-> "FilesTooLarge", refuses |-> SizeRefused(p.files)],
      [rank |-> 10, code |-> "Malformed", refuses |-> FirstRefused(p.files) # {}],
      [rank |-> 11, code |-> "EnvNotAllowed",
       refuses |-> ~ (p.env \subseteq Policy.env \ Policy.reserved)],
      [rank |-> 12, code |-> "NetworkNotAllowed",
       refuses |-> ~ (p.network \subseteq Policy.network)] }

DenialCodes == {"Unbound", "PeerNotAllowed", "Malformed", "PackageNotAllowed",
                "TimeoutOutOfPolicy", "OutputLimitOutOfPolicy", "TooManyArgs",
                "TooManyFiles", "FilesTooLarge", "EnvNotAllowed", "NetworkNotAllowed"}

Denials(p, contract) == {check \in Checks(p, contract) : check.refuses}

Authorized(p, contract) == Denials(p, contract) = {}

\* What the policy means by a request it lets through; authorize may refuse more
\* (it judges a file by the rounded size of its encoding).
WithinPolicy(p) ==
    /\ p.from \in Policy.peers /\ p.parses
    /\ p.package \in Policy.packages
    /\ p.timeout \in 1 .. Policy.max_timeout
    /\ OutputLimit(p) \in 1 .. Policy.max_output
    /\ p.args <= Policy.max_args
    /\ Len(p.files) <= Policy.max_files
    /\ ~ \E i \in DOMAIN p.files : TotalSize(p.files, i) > Policy.max_bytes
    /\ p.env \subseteq Policy.env /\ p.env \cap Policy.reserved = {}
    /\ p.network \subseteq Policy.network

\* authorize's Err: the first check that refuses.
DenialCode(p, contract) ==
    LET denials == Denials(p, contract)
        first == CHOOSE d \in denials : \A e \in denials : d.rank <= e.rank
    IN  first.code

\* validate: the executor's own allowlist, and the shape of what is granted.
Valid(p) ==
    /\ p.package \in Supported
    /\ p.timeout > 0
    /\ \A i \in DOMAIN p.files : p.files[i].confined
    /\ p.grants_well_formed
================================================================================
