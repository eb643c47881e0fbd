-------------------------------- MODULE Settings --------------------------------
(***************************************************************************)
(* The settings: a struct that every request shares, with no lock, and the *)
(* row they are kept in (internal/api/handler_settings.go, defaults and    *)
(* validation of internal/config/config.go, loadSettingsFromDB of          *)
(* cmd/rana-api/main.go).  The struct is copied and overwritten a field at *)
(* a time: a copy that runs beside an overwrite is a data race, and gets   *)
(* the fields of both.                                                     *)
(*                                                                         *)
(* Three fields stand for all: a duration with a default, and a pair whose *)
(* validity depends on both.                                               *)
(***************************************************************************)
EXTENDS Naturals, SequencesExt

CONSTANTS
  Copies,   \* requests, and executions that take the configuration, in flight
  Changes,  \* what requests may ask for: a value for some of the fields
  None

Order  == <<"timeout", "enabled", "host">>
Fields == Range(Order)

Values == {"default", "other", "wrong", "on", "off", "smtp", ""}

(* What a field may have: once it was checked, and in a request.           *)
Checked == [timeout |-> {"default", "other"}, enabled |-> {"on", "off"}, host |-> {"smtp", ""}]
Asked   == [Checked EXCEPT !.timeout = @ \union {"wrong", ""}]
Config  == {c \in [Fields -> Values] : \A f \in Fields : c[f] \in Checked[f]}

VARIABLES
  cfg,     \* the struct
  row,     \* the settings in the database; None until they are saved once
  copies,  \* what a request or an execution has got so far
  apart,   \* history: struct and row are known to differ, see MemoryMatchesRow
  mixed,   \* history: the struct may hold the fields of two requests
  acked    \* history: what was last acknowledged for a field; None once
           \* somebody may have changed it without an acknowledgement

vars == <<cfg, row, copies, apart, mixed, acked>>

(* applyDefaults                                                           *)
WithDefaults(c) ==
  [c EXCEPT !.timeout = IF @ = "" THEN "default" ELSE @]

(* Validate: an e-mail notification needs a host.                          *)
Valid(c) == c.timeout \notin {"wrong", ""} /\ (c.enabled = "on" => c.host # "")

(* DefaultConfig: the file that the first start has made.                  *)
File == [timeout |-> "default", enabled |-> "off", host |-> ""]

(* A request asks for something, an execution does not.                    *)
Asks(c) == copies[c].change # None
InFlight == {c \in Copies : copies[c] # None}
Asking == {c \in InFlight : Asks(c)}

(* alone and clean are history: no other request was handled meanwhile;    *)
(* no field was overwritten while they were copied, or had been mixed.     *)
Copy == [at : {"copy", "install", "save", "run"}, done : 0 .. Len(Order),
         got : [Fields -> Values \union {None}],
         change : Changes \union {None}, alone : BOOLEAN, clean : BOOLEAN]

TypeOK ==
  /\ cfg \in Config
  /\ row \in Config \union {None}
  /\ copies \in [Copies -> Copy \union {None}]
  /\ apart \in BOOLEAN /\ mixed \in BOOLEAN
  /\ acked \in [Fields -> Values \union {None}]
  /\ \A c \in InFlight : copies[c].at \in {"install", "save"} => copies[c].got \in Config

Init ==
  /\ cfg = File /\ row = None /\ acked = File
  /\ copies = [c \in Copies |-> None]
  /\ apart = FALSE /\ mixed = FALSE

history == <<apart, mixed, acked>>

Unsure(F) == acked' = [f \in Fields |-> IF f \in F THEN None ELSE acked[f]]

-----------------------------------------------------------------------------
(* PUT /settings, or the start of an execution.                            *)
Begin(c, change) ==
  /\ copies[c] = None
  /\ LET new == [at |-> "copy", done |-> 0, got |-> [f \in Fields |-> None],
                 change |-> change, alone |-> Asking = {} \/ change = None,
                 clean |-> change = None /\ ~mixed /\ \A d \in InFlight : copies[d].at # "install"]
     IN  copies' = [d \in Copies |->
           IF d = c THEN new
           ELSE IF d \in Asking /\ change # None THEN [copies[d] EXCEPT !.alone = FALSE]
           ELSE copies[d]]
  /\ UNCHANGED <<cfg, row, history>>

CopyFieldOfFile(c) ==  \* a mutant: what the process was started with is changed
  /\ c \in InFlight /\ copies[c].at = "copy" /\ copies[c].done < Len(Order)
  /\ LET f == Order[copies[c].done + 1]
     IN  copies' = [copies EXCEPT ![c].got[f] = File[f], ![c].done = @ + 1]
  /\ UNCHANGED <<cfg, row, history>>

CopyField(c) ==
  /\ c \in InFlight /\ copies[c].at = "copy" /\ copies[c].done < Len(Order)
  /\ LET f == Order[copies[c].done + 1]
     IN  copies' = [copies EXCEPT ![c].got[f] = cfg[f], ![c].done = @ + 1]
  /\ UNCHANGED <<cfg, row, history>>

Changed(c) ==
  WithDefaults([f \in Fields |-> IF f \in DOMAIN copies[c].change THEN copies[c].change[f]
                                 ELSE copies[c].got[f]])

ApplyUnchecked(c) ==  \* a mutant: what is not valid is written, too
  /\ c \in InFlight /\ copies[c].at = "copy" /\ copies[c].done = Len(Order)
  /\ copies' = [copies EXCEPT ![c] =
       IF ~Asks(c) THEN [@ EXCEPT !.at = "run", !.done = 0]
       ELSE [@ EXCEPT !.at = "install", !.done = 0, !.got = Changed(c)]]
  /\ UNCHANGED <<cfg, row, history>>

(* What is not valid is answered 400.                                      *)
Apply(c) ==
  /\ c \in InFlight /\ copies[c].at = "copy" /\ copies[c].done = Len(Order)
  /\ copies' = [copies EXCEPT ![c] =
       IF ~Asks(c) THEN [@ EXCEPT !.at = "run", !.done = 0]
       ELSE IF Valid(Changed(c)) THEN [@ EXCEPT !.at = "install", !.done = 0, !.got = Changed(c)]
       ELSE None]
  /\ UNCHANGED <<cfg, row, history>>

(* *s.cfg = next                                                           *)
InstallField(c) ==
  /\ c \in InFlight /\ copies[c].at = "install"
  /\ LET f == Order[copies[c].done + 1]
         last == copies[c].done + 1 = Len(Order)
     IN  /\ cfg' = [cfg EXCEPT ![f] = copies[c].got[f]]
         /\ copies' = [d \in Copies |->
              IF d = c THEN [copies[c] EXCEPT !.done = IF last THEN 0 ELSE @ + 1,
                                              !.at = IF last THEN "save" ELSE @]
              ELSE IF d \in InFlight /\ copies[d].at = "copy" THEN [copies[d] EXCEPT !.clean = FALSE]
              ELSE copies[d]]
         /\ mixed' = (~copies[c].alone \/ (mixed /\ ~last))
  /\ apart' = TRUE
  /\ UNCHANGED <<row, acked>>

(* loadSettingsFromDB, at the next start.                                  *)
Load == IF row = None THEN File ELSE row

Acknowledged(c) ==
  IF ~copies[c].alone THEN Unsure(Fields)
  ELSE acked' = [f \in Fields |-> IF f \in DOMAIN copies[c].change THEN copies[c].got[f] ELSE acked[f]]

Saves(c, settings) ==
  /\ c \in InFlight /\ copies[c].at = "save"
  /\ row' = settings
  /\ apart' = ~copies[c].alone
  /\ Acknowledged(c)
  /\ copies' = [copies EXCEPT ![c] = None]
  /\ UNCHANGED <<cfg, mixed>>

SaveShared(c) ==  \* a mutant: the struct is saved, not what was made of it
  Saves(c, cfg)

SaveForgetting(c) ==  \* a mutant: the statement lacks a column
  Saves(c, [copies[c].got EXCEPT !.host = Load.host])

Save(c) == Saves(c, copies[c].got)

(* Answered 500; the struct keeps what was not saved.                      *)
SaveFails(c) ==
  /\ c \in InFlight /\ copies[c].at = "save"
  /\ Unsure(IF copies[c].alone THEN DOMAIN copies[c].change ELSE Fields)
  /\ copies' = [copies EXCEPT ![c] = None]
  /\ UNCHANGED <<cfg, row, apart, mixed>>

(* An execution has what it came for.                                      *)
Run(c) ==
  /\ c \in InFlight /\ copies[c].at = "run"
  /\ copies' = [copies EXCEPT ![c] = None]
  /\ UNCHANGED <<cfg, row, history>>

-----------------------------------------------------------------------------
(* The process ends and starts again, with the same file.                  *)
Restart ==
  /\ cfg' = Load
  /\ copies' = [c \in Copies |-> None]
  /\ apart' = FALSE /\ mixed' = FALSE
  /\ UNCHANGED <<row, acked>>

(* The row could not be read: a warning, and the file's settings.          *)
RestartUnread ==
  /\ cfg' = File
  /\ copies' = [c \in Copies |-> None]
  /\ apart' = TRUE /\ mixed' = FALSE /\ Unsure(Fields)
  /\ UNCHANGED row

Next ==
  \/ \E c \in Copies :
       \/ \E change \in Changes \union {None} : Begin(c, change)
       \/ CopyField(c) \/ Apply(c) \/ InstallField(c)
       \/ Save(c) \/ SaveFails(c) \/ Run(c)
  \/ Restart \/ RestartUnread

Spec == Init /\ [][Next]_vars

-----------------------------------------------------------------------------
(* Nothing is used that was not checked.  Settings that were saved are     *)
(* valid, whatever raced for the struct: the next start does not look.  An *)
(* execution runs with a configuration that was checked, unless a request  *)
(* was writing it meanwhile or two had written it together.                *)
OnlyCheckedIsUsed ==
  /\ row # None => Valid(row)
  /\ \A c \in InFlight : copies[c].at = "run" /\ copies[c].clean => Valid(copies[c].got)

(* With no request in flight the struct is what the row says, and so what  *)
(* the next start will find, unless the last request could not save or had *)
(* met another, or the row could not be read.                              *)
MemoryMatchesRow == Asking = {} /\ ~apart => cfg = Load

(* What was acknowledged for a field is in the row, however often other    *)
(* fields are changed and the process is started; unless requests met, or  *)
(* one that asked for another value was not saved, or the row was not read.*)
AcknowledgedSurvives == \A f \in Fields : acked[f] \in {None, Load[f]}
================================================================================
