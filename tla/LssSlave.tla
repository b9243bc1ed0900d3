------------------------------ MODULE LssSlave ------------------------------
(***************************************************************************)
(* Node-ID and bit rate of the gateway: the LSS slave of the CANopen stack *)
(* (canopennode/305/CO_LSSslave.c) with its callbacks (lss_cb.c), the      *)
(* communication reset of the main loop, which puts the pending values     *)
(* into force, the console command can_baud, and the stored configuration  *)
(* they are loaded from (ConfigStorage has the details of that).           *)
(*                                                                         *)
(* The slave keeps one request at a time: it is received by the poll of    *)
(* the CAN module, also from inside a blocking SDO exchange, and processed *)
(* by CO_process.  An identity number is told apart only by whether the    *)
(* master's number matches the gateway's, in its leading bits or in all.   *)
(* A fastscan is a master's of the same stack (CO_LSSmaster.c): it goes    *)
(* from part to part, may skip parts, and does not know which slaves hear. *)
(***************************************************************************)
EXTENDS Integers

CONSTANTS
  Id, Unset,     (* node-IDs 1 .. 127 and 0xFF, which asks for assignment  *)
  DefaultId,
  TableRate,     (* the bit rates of the LSS table, in kbit/s              *)
  ConsoleRate,   (* and those a user may give to can_baud                  *)
  DefaultRate,
  None

Part == 0 .. 3   (* vendor, product, revision, serial number               *)

ASSUME LssAssumption ==
  /\ DefaultId \in Id \ {Unset} /\ Unset \in Id /\ None \notin Id \union Part
  /\ TableRate \subseteq Nat /\ ConsoleRate \subseteq Nat \ {0}
  /\ DefaultRate \in TableRate

VARIABLES
  up,             (* start, run, or dead: the application resets itself     *)
  pendingNodeID, pendingBitRate, activeNodeID,
  bitRate,        (* of the CAN module                                      *)
  stored,         (* the valid configuration in the flash, or None          *)
  lssState, lssSelect, fastscanPos,
  service,        (* sendResponse and what is to be processed, or None      *)
  byFastscan,     (* history: the configuration state was entered by it     *)
  deaf,           (* history: the slave missed the start of the scan        *)
  scanAt,         (* fsLssSub of a master that scans, or None               *)
  differs,        (* history: the slave did not confirm a part of this scan *)
  restored,       (* history: the console has read back the configuration   *)
  accepted        (* history: rates not in the table that can_baud has taken*)

pending == <<pendingNodeID, pendingBitRate>>
slave   == <<lssState, lssSelect, fastscanPos, service, byFastscan, deaf>>
scan    == <<scanAt, differs>>
history == <<restored, accepted>>
lssVars == <<up, pending, activeNodeID, bitRate, stored, slave, scan, history>>

-----------------------------------------------------------------------------
(* can_drv_check_set_bitrate: the prescalers with 5 to 16 quanta a bit.    *)
F_OSC_CAN == 42000000
Divides(rate) ==
  \E brp \in 1 .. 1023 :
    LET tqs == (F_OSC_CAN \div brp) \div (rate * 1000)
    IN tqs \in 5 .. 16 /\ (F_OSC_CAN \div brp) \div tqs = rate * 1000

Supported == {rate \in (TableRate \union ConsoleRate) \ {0} : Divides(rate)}

(* The rates CO_CANmodule_init takes.                                      *)
Initialisable == Supported \intersect 10 .. 1000

ASSUME LssRates ==
  /\ TableRate \subseteq {0} \union 10 .. 1000
  /\ DefaultRate \in Initialisable

(* lss_check_br (mutant: only zero is refused).                            *)
lss_check_br_NonZero(rate) == rate # 0
lss_check_br(rate) == rate # 0 /\ rate \in Supported

(* lss_activate_br, the rate after it: with a delay it is switched at once; *)
(* without one the delay is put into the counter of lss_cb_poll, which     *)
(* waits for another value than zero and so never acts.                    *)
lss_activate_br(ms) ==
  IF ms # 0 /\ pendingBitRate \in Supported THEN pendingBitRate ELSE bitRate

-----------------------------------------------------------------------------
Cleared == /\ lssState' = "waiting" /\ lssSelect' = {} /\ fastscanPos' = 0
           /\ service' = None /\ byFastscan' = FALSE /\ deaf' = FALSE

LoadStored ==
        /\ pendingNodeID' = IF stored = None THEN pendingNodeID ELSE stored.id
        /\ pendingBitRate' = IF stored = None THEN pendingBitRate ELSE stored.rate

LssInit ==
  /\ up = "start" /\ pendingNodeID = DefaultId /\ pendingBitRate = DefaultRate
  /\ activeNodeID = DefaultId /\ bitRate = DefaultRate
  /\ stored \in {None, [id |-> Unset, rate |-> DefaultRate]}
  /\ lssState = "waiting" /\ lssSelect = {} /\ fastscanPos = 0 /\ service = None
  /\ byFastscan = FALSE /\ deaf = FALSE /\ scanAt = None /\ differs = FALSE
  /\ restored = FALSE /\ accepted = {}

(* From the reset to the main loop: config_read_storage over the defaults. *)
LssBoot ==
  /\ up' = "start" /\ Cleared
  /\ pendingNodeID' = IF stored = None THEN DefaultId ELSE stored.id
  /\ pendingBitRate' = IF stored = None THEN DefaultRate ELSE stored.rate
  /\ UNCHANGED <<activeNodeID, bitRate, stored, scan, history>>

(* The communication reset: CO_CANinit, CO_LSSinit.  If the module cannot  *)
(* be initialised the application waits two seconds and resets itself.     *)
CanInit ==
  /\ up = "start"
  /\ IF pendingBitRate \in Initialisable
     THEN /\ up' = "run" /\ bitRate' = pendingBitRate
          /\ activeNodeID' = pendingNodeID /\ Cleared /\ restored' = FALSE
     ELSE up' = "dead" /\ UNCHANGED <<bitRate, activeNodeID, slave, restored>>
  /\ UNCHANGED <<pending, stored, scan, accepted>>

(* The NMT command, or CO_LSSslave_process, asks for it.                   *)
NmtReset == up = "run" /\ up' = "start"
            /\ UNCHANGED <<pending, activeNodeID, bitRate, stored, slave, scan, history>>

-----------------------------------------------------------------------------
(* CO_LSSslave_receive: nothing is taken while a request is unprocessed.   *)
Receive == up = "run" /\ service = None
           /\ UNCHANGED <<up, pending, activeNodeID, bitRate, stored, deaf, scan, history>>

(* Back to the waiting state; whoever got its first node-ID has to put it  *)
(* into force (mutant: the state is changed before it is looked at).       *)
GetsId_Late == FALSE
GetsId == /\ lssState = "configuration" /\ activeNodeID = Unset
          /\ pendingNodeID # Unset
SwitchWaiting ==
  /\ Receive /\ service' = IF GetsId THEN [cs |-> "global"] ELSE None
  /\ lssState' = "waiting" /\ lssSelect' = {} /\ byFastscan' = FALSE
  /\ UNCHANGED fastscanPos
SwitchConfiguration ==
  /\ Receive /\ lssState' = "configuration" /\ byFastscan' = FALSE
  /\ UNCHANGED <<lssSelect, fastscanPos, service>>

(* Selective switch: the serial number, which is always the one just       *)
(* received, completes the address; of the others it is known which match.*)
Select(part, match) ==
  /\ Receive /\ lssState = "waiting"
  /\ IF part = 3 THEN UNCHANGED lssSelect
     ELSE lssSelect' = IF match THEN lssSelect \union {part} ELSE lssSelect \ {part}
  /\ IF part = 3 /\ match /\ lssSelect = Part \ {3}
     THEN lssState' = "configuration" /\ service' = [cs |-> "select"]
     ELSE UNCHANGED <<lssState, service>>
  /\ UNCHANGED <<fastscanPos, byFastscan>>

-----------------------------------------------------------------------------
(* The fastscan.  Slaves that have no node-ID take part in it.             *)
Unassigned == pendingNodeID = Unset /\ activeNodeID = Unset
TakesPart == up = "run" /\ service = None /\ lssState = "waiting" /\ Unassigned

Identity == [cs |-> "identity"]
(* What becomes of a message of the scan without that: in the              *)
(* configuration state it is kept and answered.                            *)
Kept == service' = IF up = "run" /\ service = None /\ lssState = "configuration"
                   THEN Identity ELSE service

(* A scan starts: the slaves answer and start over.                        *)
FastscanConfirm ==
  /\ scanAt' = 0 /\ differs' = FALSE /\ deaf' = ~TakesPart
  /\ IF TakesPart THEN service' = Identity /\ fastscanPos' = 0
     ELSE Kept /\ UNCHANGED fastscanPos
  /\ UNCHANGED <<up, pending, activeNodeID, bitRate, stored, history>>
  /\ UNCHANGED <<lssState, lssSelect, byFastscan>>

(* A part is looked at only when the slave has come to it (mutant: ever).  *)
AtPart_Any(part) == TRUE
AtPart(part) == fastscanPos = part
Confirms(part, match) == TakesPart /\ AtPart(part) /\ match

(* The slave whose part begins with the bits of the master's number        *)
(* answers and goes where the master says; the last bit of a part leads    *)
(* into the configuration state if it is behind.                           *)
FastscanPart(part, bit0, next, match) ==
  /\ IF Confirms(part, match)
     THEN /\ service' = Identity /\ fastscanPos' = next
          /\ IF bit0 /\ next < part
             THEN lssState' = "configuration" /\ byFastscan' = TRUE
             ELSE UNCHANGED <<lssState, byFastscan>>
     ELSE Kept /\ UNCHANGED <<fastscanPos, lssState, byFastscan>>
  /\ UNCHANGED <<up, pending, activeNodeID, bitRate, stored, lssSelect, deaf, history>>

(* The master looks for the bits of a part; when it has all, or was given  *)
(* them, it verifies the part and names the next it will look at, any that *)
(* follows, or the first to end the scan, which must have had two parts.   *)
(* It goes on when a slave answers, whichever (CO_LSSmaster.c:960-1105).   *)
Probe(bit0, match) ==
  scanAt \in Part /\ FastscanPart(scanAt, bit0, scanAt, match) /\ UNCHANGED scan
Verify(next, match) ==
  /\ scanAt \in Part /\ (next > scanAt \/ (next = 0 /\ scanAt > 0))
  /\ FastscanPart(scanAt, TRUE, next, match)
  /\ scanAt' = IF next = 0 THEN None ELSE next
  /\ differs' = (differs \/ ~Confirms(scanAt, match))

-----------------------------------------------------------------------------
(* In the configuration state a request is only kept.                      *)
Requests == {[cs |-> "id", id |-> n] : n \in Id \union {0}}
              \union {[cs |-> "rate", rate |-> r] : r \in TableRate}
              \union {[cs |-> "activate", ms |-> m] : m \in {0, 1000}}
              \union {[cs |-> "store"], Identity}
Services == Requests \union {[cs |-> "global"], [cs |-> "select"]}
ASSUME LssNone == None \notin Services
Request == /\ Receive /\ lssState = "configuration" /\ service' \in Requests
           /\ UNCHANGED <<lssState, lssSelect, fastscanPos, byFastscan>>

(* CO_LSSslave_process.                                                    *)
ProcessCases ==
  \/ /\ service.cs = "global" /\ up' = "start"
     /\ UNCHANGED <<pending, bitRate, stored>>
  \/ /\ service.cs \in {"select", "identity"}
     /\ UNCHANGED <<up, pending, bitRate, stored>>
  \/ /\ service.cs = "id"
     /\ pendingNodeID' = IF service.id \in Id THEN service.id ELSE pendingNodeID
     /\ UNCHANGED <<up, pendingBitRate, bitRate, stored>>
  \/ /\ service.cs = "rate"
     /\ pendingBitRate' = IF lss_check_br(service.rate) THEN service.rate ELSE pendingBitRate
     /\ UNCHANGED <<up, pendingNodeID, bitRate, stored>>
  \/ /\ service.cs = "activate" /\ bitRate' = lss_activate_br(service.ms)
     /\ UNCHANGED <<up, pending, stored>>
  \/ /\ service.cs = "store"
     /\ stored' \in {None, [id |-> pendingNodeID, rate |-> pendingBitRate]}
     /\ UNCHANGED <<up, pending, bitRate>>

Process ==
  /\ up = "run" /\ service # None /\ ProcessCases /\ service' = None
  /\ UNCHANGED <<activeNodeID, lssState, lssSelect, fastscanPos, byFastscan, deaf>>
  /\ UNCHANGED <<scan, history>>

-----------------------------------------------------------------------------
(* The console: can_baud; the nodes it knows are configured before, by an  *)
(* LSS master that has the rates of the table only (nodes: is there one).  *)
can_baud(rate, nodes) ==
  /\ up = "run" /\ rate \in Supported /\ (nodes => rate \in TableRate)
  /\ pendingBitRate' = rate
  /\ accepted' = accepted \union ({rate} \ TableRate)
  /\ UNCHANGED <<up, pendingNodeID, activeNodeID, bitRate, stored, slave, scan, restored>>
(* And cfg save, cfg read.                                                 *)
Save ==
  /\ up = "run" /\ stored' \in {None, [id |-> pendingNodeID, rate |-> pendingBitRate]}
  /\ UNCHANGED <<up, pending, activeNodeID, bitRate, slave, scan, history>>
Restore ==
  /\ up = "run" /\ LoadStored /\ restored' = TRUE
  /\ UNCHANGED <<up, activeNodeID, bitRate, stored, slave, scan, accepted>>

LssNext ==
  \/ LssBoot \/ CanInit \/ NmtReset \/ Process
  \/ SwitchWaiting \/ SwitchConfiguration \/ Request \/ FastscanConfirm
  \/ \E part \in Part, match \in BOOLEAN : Select(part, match) \/ Verify(part, match)
  \/ \E bit0, match \in BOOLEAN : Probe(bit0, match)
  \/ \E rate \in ConsoleRate, nodes \in BOOLEAN : can_baud(rate, nodes)
  \/ Save \/ Restore

LssSpec == LssInit /\ [][LssNext]_lssVars

-----------------------------------------------------------------------------
(* Every variable has its type, and a rate in force is one the module can  *)
(* make (can_drv_check_set_bitrate).                                       *)
LssTypeOK ==
  /\ up \in {"start", "run", "dead"} /\ pendingNodeID \in Id /\ activeNodeID \in Id
  /\ pendingBitRate \in Nat /\ bitRate \in Supported
  /\ stored \in [id : Id, rate : Nat] \union {None} /\ service \in Services \union {None}
  /\ lssState \in {"waiting", "configuration"} /\ lssSelect \subseteq Part
  /\ fastscanPos \in Part /\ scanAt \in Part \union {None}
  /\ byFastscan \in BOOLEAN /\ deaf \in BOOLEAN /\ differs \in BOOLEAN
  /\ restored \in BOOLEAN /\ accepted \subseteq ConsoleRate

(* No sequence of configuring, storing, restoring and resetting leaves a   *)
(* bit rate with which CO_CANinit fails and the gateway resets itself for  *)
(* ever (app.c:269), unless the console was given that rate, which is not  *)
(* in the table of LSS, while it knew of no node on the bus: can_baud      *)
(* checks less than CO_CANinit does.                                       *)
FailsOnlyByConsole == up = "dead" => pendingBitRate \in accepted

(* "If pendingNodeID is not valid ... after successful configuration reset *)
(* communication with all CANopen object is activated automatically"       *)
(* (CO_LSSslave.h:135): no gateway waits with a node-ID it does not use,   *)
(* unless the console has loaded it.                                       *)
NoIdleId ==
  up = "run" /\ activeNodeID = Unset /\ pendingNodeID # Unset
  /\ lssState = "waiting" => service # None \/ restored

(* A fastscan that selects the gateway has had a match of it in every part *)
(* that the master looked at: it may skip parts, and goes on with what     *)
(* other slaves answer, while the gateway drops messages.  Not so if the   *)
(* gateway has missed the start of the scan: it goes on where an earlier   *)
(* one has left it (CO_LSSslave_receive, CO_LSSmaster_IdentifyFastscan).   *)
FastscanSelectsMatch == byFastscan => ~differs \/ deaf

-----------------------------------------------------------------------------
(* "Error! Baud %d not supported" (console_can.h:467): a rate the console  *)
(* accepts is one the CAN module is initialised with.                      *)
AcceptedIsSupported == pendingBitRate \in Initialisable

(* "the delay has to be applied once before and once after switching bit   *)
(* rates" (CO_LSSslave.h:242): the request itself does not switch.         *)
DelayComesFirst ==
  [][service # None /\ service' = None /\ service.cs = "activate" /\ service.ms > 0
       => bitRate' = bitRate]_lssVars
=============================================================================
