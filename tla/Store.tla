--------------------------------- MODULE Store ---------------------------------
(***************************************************************************)
(* The rows of the store (internal/store/models.go), for both its drivers. *)
(* A row keeps what calls and listings tell apart; content stands for its  *)
(* other fields.                                                           *)
(***************************************************************************)
EXTENDS Naturals, SequencesExt

CONSTANTS
  Ids,       \* identifiers: of each kind of row
  Names,     \* names, in the order in which they are sorted
  Hashes,    \* password hashes
  Contents,  \* the fields that no call looks at
  Numbers,   \* of the lines of logs, in the order in which they are appended
  None       \* no row, no identifier, no hash

User == [name : Names, hash : Hashes, content : Contents]
Server == [name : Names, content : Contents]
Policy(Instants)    == [name : Names, content : Contents, created : Instants]
Schedule(Instants)  == Policy(Instants)
Execution(Instants) == [content : Contents, started : Instants]
Audit(Instants)     == [at : Instants, line : Contents]
Line(Instants)      == [nr : Numbers, execution : Ids, at : Instants, line : Contents]

(* What a caller is told of a line.                                        *)
Plain(log) == [at |-> log.at, line |-> log.line]

ASSUME RowsAssumption ==
  /\ Names \subseteq Nat /\ Numbers \subseteq Nat
  /\ None \notin Ids \union Hashes \union Contents
  /\ None \notin User \union Server
================================================================================
