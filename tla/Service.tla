-------------------------------- MODULE Service --------------------------------
(***************************************************************************)
(* What surrounds the executions in the process: accounts, the gateway     *)
(* that every request passes, and the settings.  They share no state: what *)
(* a behaviour of the process does to one of them is a behaviour of that   *)
(* one alone, so a behaviour here is about one of them, and the others     *)
(* stay as they were started.                                              *)
(***************************************************************************)
EXTENDS Accounts

CONSTANTS
  Keys, Clients, Ips, Limit, Window, Day, Horizon,  \* of Gateway
  Copies, Changes                                   \* of Settings

VARIABLES
  about,  \* the part that this behaviour is about
  idempotency, inflight, records, time, answered, latest, logins,
  cfg, row, copies, apart, mixed, acked

gatewayVars  == <<idempotency, inflight, records, time, answered, latest, logins>>
settingsVars == <<cfg, row, copies, apart, mixed, acked>>

Gateway  == INSTANCE Gateway
Settings == INSTANCE Settings

ASSUME ServiceAssumption ==
  /\ Day \in Nat /\ Horizon \in Nat /\ Limit \in Nat \ {0} /\ Window \in Nat \ {0}
  /\ None \notin Changes \union Settings!Copy \union [Settings!Fields -> Settings!Values]
  /\ \A change \in Changes, f \in Settings!Fields :
       f \in DOMAIN change => change[f] \in Settings!Asked[f]

serviceVars == <<about, vars, gatewayVars, settingsVars>>

ServiceTypeOK ==
  /\ about \in {"accounts", "gateway", "settings"}
  /\ TypeOK /\ Gateway!TypeOK /\ Settings!TypeOK

ServiceInit ==
  /\ about \in {"accounts", "gateway", "settings"}
  /\ Init /\ Gateway!Init /\ Settings!Init
  /\ about # "accounts" => given = CHOOSE w \in Workloads : TRUE

Elsewhere == UNCHANGED <<about, gatewayVars, settingsVars>>

ServiceNext ==
  \/ about = "accounts" /\ UserRequests /\ Elsewhere
  \/ about = "accounts" /\ SessionRequests /\ Elsewhere
  \/ about = "accounts" /\ (\E i \in Ids : Restart(i)) /\ Elsewhere
  \/ about = "accounts" /\ Tick /\ Elsewhere
  \/ about = "gateway" /\ Gateway!Next /\ UNCHANGED <<about, vars, settingsVars>>
  \/ about = "settings" /\ Settings!Next /\ UNCHANGED <<about, vars, gatewayVars>>

ServiceSpec == ServiceInit /\ [][ServiceNext]_serviceVars

-----------------------------------------------------------------------------
(* The properties of the parts are stated in their own modules.            *)

(* Gateway: a request that succeeded does not run again within a day when  *)
(* its key comes again.                                                    *)
KeyedRunsOnce == Gateway!KeyedRunsOnce

(* Gateway: no interval sees more logins from one address than the limit.  *)
AtMostLimitPerWindow == Gateway!AtMostLimitPerWindow

(* Settings: what is saved, and what an execution runs with, was checked.  *)
OnlyCheckedIsUsed == Settings!OnlyCheckedIsUsed

(* Settings: when nobody writes them, struct and row say the same.         *)
MemoryMatchesRow == Settings!MemoryMatchesRow

(* Settings: what was acknowledged is kept, across restarts.               *)
AcknowledgedSurvives == Settings!AcknowledgedSurvives
================================================================================
