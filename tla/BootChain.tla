----------------------------- MODULE BootChain -----------------------------
(***************************************************************************)
(* The boot chain of the gateway: the first-stage loader (preldr), the     *)
(* bootloader (ldr) and the application (app), the retention register that *)
(* tells the first stage who ran before, and the firmware update that each *)
(* of the two programs performs on the flash region of the other.          *)
(*                                                                         *)
(* A flash region ("slot") is a sequence of blocks of one TFTP payload     *)
(* each, grouped in erase sectors.  The content of a block is abstracted   *)
(* to the image it belongs to: block b holds i when it holds the b-th      *)
(* chunk of image i.  Power may be lost, and the watchdog may bite, at any *)
(* step, in the middle of an erase or of a write included.                 *)
(***************************************************************************)
EXTENDS Integers, FiniteSets

CONSTANTS
  LdrImages,    (* images whose prod_name field is sh_gw_ldr                *)
  AppImages,    (* images whose prod_name field is sh_gw_app                *)
  AlienImages,  (* any other file: node firmware, an image of a wrong
                   product, a file that is no image                         *)
  HangImages,   (* well-formed images that do not reach a main loop which
                   answers: they hang there, or reset by themselves         *)
  LockImages,   (* those of them, for the application's slot, that record
                   BOOT as the load source before they reset                *)
  Size,         (* number of blocks of each image                           *)
  NBlk,         (* number of blocks of a slot                               *)
  SectorOf,     (* the erase sector of each block                           *)
  Sess,         (* TFTP write sessions (UDP control blocks)                 *)
  BootDelay,    (* BOOT_DELAY in ticks                                      *)
  MaxRequests,  (* bound on the UDP requests of a behaviour                 *)
  MaxFaults,    (* bound on power losses and spurious resets                *)
  Erased, Junk, (* contents of a block that belong to no image              *)
  NoImage       (* the image of an idle session                             *)

Slot   == {"LDR", "APP"}
Blocks == 0 .. NBlk - 1
Images == LdrImages \union AppImages \union AlienImages
Content == Images \union {Erased, Junk}
Sectors == {SectorOf[b] : b \in Blocks}

ASSUME ImagesAssumption ==
  /\ LdrImages \intersect AppImages = {}
  /\ LdrImages \intersect AlienImages = {}
  /\ AppImages \intersect AlienImages = {}
  /\ HangImages \subseteq LdrImages \union AppImages
  /\ LockImages \subseteq HangImages \intersect AppImages
  /\ Erased \notin Images /\ Junk \notin Images /\ Erased # Junk
  /\ NoImage \notin Images
ASSUME SizeAssumption ==
  /\ NBlk \in Nat \ {0}
  /\ SectorOf \in [Blocks -> Nat]
  /\ Size \in [Images -> Nat \ {0}]
ASSUME BoundsAssumption ==
  BootDelay \in Nat /\ MaxRequests \in Nat /\ MaxFaults \in Nat

VARIABLES
  mode,      (* the program that executes, "_start" until its main loop      *)
  loadSrc,   (* retention register BKP0R                                     *)
  flash,     (* content of every block of every slot                         *)
  locked,    (* g_fw_info[].locked as last computed: the slots found invalid *)
  erased,    (* flash_desc[].erased: the sectors erased in this transfer     *)
  cb,        (* tftp_cb.write: to the other slot, to a CAN node, unset       *)
  sess,      (* the write sessions                                           *)
  stay,      (* g_stay_in_boot                                               *)
  bootDelay, (* boot_delay                                                   *)
  requests, faults, (* environment steps taken so far                       *)
  lastRun,   (* history: the slot the first stage started last               *)
  clean      (* history: sessions no other request has interfered with       *)

ram  == <<locked, erased, cb, sess, stay, bootDelay, clean>>
vars == <<mode, loadSrc, flash, ram, requests, faults, lastRun>>

(* A session sends the blocks of img in order, next is the next of them.   *)
Idle == [img |-> NoImage, next |-> 0]
SessionState == [img: Images \union {NoImage}, next: Nat]
Active(s) == sess[s].img # NoImage

Modes == {"preldr", "ldr_start", "ldr", "app_start", "app", "dead"}

(* The product name fw_header_check_all requires of the image in a slot.   *)
Expected(slot) == IF slot = "LDR" THEN LdrImages ELSE AppImages

(* Image i is completely in the slot f; what follows it is not checked.    *)
Holds(f, i) == Size[i] <= NBlk /\ \A b \in 0 .. Size[i] - 1 : f[b] = i

(* fw_header_check_all leaves the slot unlocked: the region is a complete  *)
(* image (its CRC matches) of the right product.                           *)
Valid(slot) == \E i \in Expected(slot) : Holds(flash[slot], i)
Locks(fl)   == {slot \in Slot : ~ \E i \in Expected(slot) : Holds(fl[slot], i)}

(* Mutant: the region symbols of the two write callbacks swapped.          *)
WriteSlot_Own == IF mode = "ldr" THEN "LDR" ELSE "APP"
(* The slot the running program accepts firmware for: the other one.       *)
WriteSlot == IF mode = "ldr" THEN "APP" ELSE "LDR"

-----------------------------------------------------------------------------
(* Power-up or reset: the first stage runs, the RAM has its initial values.*)
RamReset ==
  /\ locked' = {} /\ erased' = {} /\ cb' = "none"
  /\ sess' = [s \in Sess |-> Idle] /\ clean' = {}
  /\ stay' = FALSE /\ bootDelay' = BootDelay

Reset == mode' = "preldr" /\ RamReset

(* A fresh board: at least one of the slots holds a complete image that    *)
(* works, the other one too or is blank.                                   *)
Init ==
  /\ mode = "preldr" /\ loadSrc = "NONE"
  /\ \E l \in (LdrImages \ HangImages) \union {Erased},
        a \in (AppImages \ HangImages) \union {Erased} :
       /\ flash = [slot \in Slot |-> [b \in Blocks |-> IF slot = "LDR" THEN l ELSE a]]
       /\ Locks(flash) # Slot
  /\ locked = {} /\ erased = {} /\ cb = "none"
  /\ sess = [s \in Sess |-> Idle] /\ clean = {}
  /\ stay = FALSE /\ bootDelay = BootDelay
  /\ requests = 0 /\ faults = 0 /\ lastRun = "none"

-----------------------------------------------------------------------------
(* Mutant: the application is preferred whoever ran before.                *)
PreldrChoice_AppFirst ==
  IF Valid("APP") THEN "APP" ELSE IF Valid("LDR") THEN "LDR" ELSE "none"
(* The choice of the first stage, after it has checked both slots.         *)
PreldrChoice ==
  IF loadSrc = "BOOT" /\ Valid("APP") THEN "APP"
  ELSE IF Valid("LDR") THEN "LDR"
  ELSE IF Valid("APP") THEN "APP" ELSE "none"

(* The load source the first stage leaves behind (mutant: not cleared).    *)
PreldrSource_Kept == loadSrc
PreldrSource == "NONE"

(* main() of preldr: clear the load source, check, jump (or loop forever). *)
Preldr ==
  /\ mode = "preldr"
  /\ loadSrc' = PreldrSource
  /\ mode' = CASE PreldrChoice = "APP"  -> "app_start"
               [] PreldrChoice = "LDR"  -> "ldr_start"
               [] PreldrChoice = "none" -> "dead"
  /\ lastRun' = IF PreldrChoice = "none" THEN lastRun ELSE PreldrChoice
  /\ UNCHANGED <<flash, ram, requests, faults>>

(* The load source the bootloader records (mutant: it records nothing).    *)
LdrSource_None == loadSrc
LdrSource == "BOOT"

(* main() of ldr up to its loop: check the slots, record the load source.  *)
LdrInit ==
  /\ mode = "ldr_start" /\ flash["LDR"][0] \notin HangImages
  /\ mode' = "ldr" /\ loadSrc' = LdrSource /\ locked' = Locks(flash)
  /\ UNCHANGED <<flash, erased, cb, sess, clean, stay, bootDelay, requests, faults, lastRun>>

(* main() of app up to its loop.                                           *)
AppInit ==
  /\ mode = "app_start" /\ flash["APP"][0] \notin HangImages
  /\ mode' = "app" /\ loadSrc' = "APP" /\ locked' = Locks(flash)
  /\ UNCHANGED <<flash, erased, cb, sess, clean, stay, bootDelay, requests, faults, lastRun>>

(* What an application that does not reach its loop may leave as the load  *)
(* source: this repository's writes APP; a foreign one may write BOOT.     *)
AppHangSource ==
  {loadSrc, "APP"} \union (IF flash["APP"][0] \in LockImages THEN {"BOOT"} ELSE {})

(* An image that hangs is reset by the watchdog, which both programs start *)
(* first; it may have recorded a load source before.                       *)
HangReset ==
  /\ \/ mode = "ldr_start" /\ flash["LDR"][0] \in HangImages /\ loadSrc' \in {loadSrc, "BOOT"}
     \/ mode = "app_start" /\ flash["APP"][0] \in HangImages /\ loadSrc' \in AppHangSource
  /\ Reset
  /\ UNCHANGED <<flash, requests, faults, lastRun>>

(* The boot delay after d milliseconds.                                    *)
CountDown(d) == IF bootDelay >= d THEN bootDelay - d ELSE 0

(* One pass of the bootloader's loop counts the boot delay down.           *)
LdrTick ==
  /\ mode = "ldr" /\ bootDelay > 0
  /\ \E d \in 1 .. BootDelay : bootDelay' = CountDown(d)
  /\ UNCHANGED <<mode, loadSrc, flash, locked, erased, cb, sess, clean, stay, requests,
                 faults, lastRun>>

(* The verdict the bootloader looks at (mutant: the other slot's).         *)
AppUnlocked_WrongSlot == "LDR" \notin locked
AppUnlocked == "APP" \notin locked

(* The delay is over, nobody asked to stay and the application was found   *)
(* valid: reset, for the first stage to start it.                          *)
LdrTimeout ==
  /\ mode = "ldr" /\ bootDelay = 0 /\ ~stay /\ AppUnlocked
  /\ Reset
  /\ UNCHANGED <<loadSrc, flash, requests, faults, lastRun>>

-----------------------------------------------------------------------------
(* Every datagram to the console and every TFTP request keeps the          *)
(* bootloader (mutant: it does not).                                       *)
StayInBoot_Not == UNCHANGED stay
StayInBoot == stay' = TRUE

(* A datagram to the console of ldr or app: "fw" checks the slots again,   *)
(* "reset" resets; any of them keeps the bootloader.                       *)
Console ==
  /\ mode \in {"ldr", "app"} /\ requests < MaxRequests
  /\ requests' = requests + 1
  /\ \/ /\ locked' \in {locked, Locks(flash)}
        /\ StayInBoot
        /\ UNCHANGED <<mode, erased, cb, sess, clean, bootDelay>>
     \/ Reset
  /\ UNCHANGED <<loadSrc, flash, faults, lastRun>>

(* Names tftp_server_check_file takes for a write in the running program;  *)
(* a node's file name installs the node's callbacks for reads as well.     *)
FileKinds == IF mode = "app" THEN {"gw", "nd"} ELSE {"gw"}

(* The erase flags after a write request (mutant: they are not cleared).   *)
EraseFlags_Kept(kind) == erased
EraseFlags(kind) == IF kind = "gw" THEN {} ELSE erased

(* A write request opens session s: the slots are checked, the erase flags *)
(* cleared (for the gateway's own file), the write callback replaced.      *)
WriteRequest(s) ==
  /\ mode \in {"ldr", "app"} /\ ~Active(s) /\ requests < MaxRequests
  /\ requests' = requests + 1
  /\ StayInBoot /\ locked' = Locks(flash)
  /\ \E kind \in FileKinds, i \in Images :
       /\ cb' = kind
       /\ erased' = EraseFlags(kind)
       /\ sess' = [sess EXCEPT ![s] = [img |-> i, next |-> 0]]
       /\ clean' = IF kind = "gw" /\ \A u \in Sess : ~Active(u) THEN {s} ELSE {}
  /\ UNCHANGED <<mode, loadSrc, flash, bootDelay, faults, lastRun>>

(* A read request, or a request that is refused: same check, and reading a *)
(* node's firmware installs the node's write callback too.                 *)
OtherRequest ==
  /\ mode \in {"ldr", "app"} /\ requests < MaxRequests
  /\ requests' = requests + 1
  /\ StayInBoot /\ locked' = Locks(flash)
  /\ \/ /\ "nd" \in FileKinds /\ cb' = "nd" /\ clean' = {}
     \/ UNCHANGED <<cb, clean>>
  /\ UNCHANGED <<mode, loadSrc, flash, erased, sess, bootDelay, faults, lastRun>>

-----------------------------------------------------------------------------
(* platform_flash_write of block b: erase its sector on the first touch of *)
(* the transfer, program, read back.  Programming only clears bits, so a   *)
(* block that is not blank keeps its content or is spoilt.                 *)
AfterErase(slot, b) ==
  IF <<slot, SectorOf[b]>> \in erased THEN flash[slot]
  ELSE [x \in Blocks |-> IF SectorOf[x] = SectorOf[b] THEN Erased ELSE flash[slot][x]]
Programmable(slot, b, c) ==
  LET old == AfterErase(slot, b)[b] IN old = Erased \/ (old = c /\ c # Junk)
FlashWrite(slot, b, c) ==
  /\ flash' = [flash EXCEPT ![slot] =
       [AfterErase(slot, b) EXCEPT ![b] = IF Programmable(slot, b, c) THEN c ELSE Junk]]
  /\ erased' = erased \union {<<slot, SectorOf[b]>>}

(* cb_wr_gw_app, cb_wr_gw_ldr: refuse what lies beyond the slot.           *)
InBounds(b) == b < NBlk

(* tftp_cb.write of block b of s with content c; ok is its result.         *)
WriteBlock(b, c, ok) ==
  CASE cb = "gw" /\ InBounds(b) ->
         /\ FlashWrite(WriteSlot, b, c)
         /\ ok = Programmable(WriteSlot, b, c)
    [] cb = "gw" /\ ~InBounds(b) -> ~ok /\ UNCHANGED <<flash, erased>>
    [] OTHER -> UNCHANGED <<flash, erased>>

(* The next DATA packet of session s.  The last one is short: the whole    *)
(* file is there, the slots are checked again and the session is closed.   *)
(* A packet of the right number that is not the file's data is written     *)
(* too: the operation code is not looked at, so an ERROR packet counts.    *)
DataPacket(s, c) ==
  LET b == sess[s].next
      short == c = Junk \/ b = Size[sess[s].img] - 1
  IN
  /\ mode \in {"ldr", "app"} /\ Active(s)
  /\ b < Size[sess[s].img]
  /\ \E ok \in BOOLEAN :
       /\ WriteBlock(b, c, ok)
       /\ sess' = [sess EXCEPT ![s] =
                     IF short \/ ~ok THEN Idle ELSE [@ EXCEPT !.next = b + 1]]
  /\ locked' = IF short /\ cb = "gw" THEN Locks(flash') ELSE locked
  /\ UNCHANGED <<mode, loadSrc, cb, clean, stay, bootDelay, requests, faults, lastRun>>

GoodData(s)  == Active(s) /\ DataPacket(s, sess[s].img)
StrayData(s) == DataPacket(s, Junk)

(* A short packet with no data or of another number ends the transfer.     *)
StrayEnd(s) ==
  /\ mode \in {"ldr", "app"} /\ Active(s)
  /\ sess' = [sess EXCEPT ![s] = Idle]
  /\ locked' = IF sess[s].next # 0 /\ cb = "gw" THEN Locks(flash) ELSE locked
  /\ UNCHANGED <<mode, loadSrc, flash, erased, cb, clean, stay, bootDelay, requests,
                 faults, lastRun>>

-----------------------------------------------------------------------------
(* Loss of power, or a spurious reset: the retention register may survive. *)
Fault ==
  /\ faults < MaxFaults /\ faults' = faults + 1
  /\ loadSrc' \in {loadSrc, "NONE"}
  /\ Reset
  /\ UNCHANGED <<requests, lastRun>>

PowerLoss == Fault /\ UNCHANGED flash

(* Power lost while a block is written: the sector being erased, or the    *)
(* block being programmed, has any content.                                *)
TornWrite(s) ==
  LET b == sess[s].next
      torn == IF <<WriteSlot, SectorOf[b]>> \in erased THEN {b}
              ELSE {x \in Blocks : SectorOf[x] = SectorOf[b]}
  IN
  /\ mode \in {"ldr", "app"} /\ Active(s) /\ cb = "gw" /\ InBounds(b)
  /\ Fault
  /\ flash' = [flash EXCEPT ![WriteSlot] =
                 [x \in Blocks |-> IF x \in torn THEN Junk ELSE flash[WriteSlot][x]]]

-----------------------------------------------------------------------------
Firmware    == Preldr \/ LdrInit \/ AppInit \/ HangReset \/ LdrTick \/ LdrTimeout
Network     == \/ Console \/ OtherRequest
               \/ \E s \in Sess : WriteRequest(s) \/ GoodData(s) \/ StrayData(s) \/ StrayEnd(s)
Environment == PowerLoss \/ \E s \in Sess : TornWrite(s)

Next == Firmware \/ Network \/ Environment

Spec == Init /\ [][Next]_vars

(* The processor runs: nothing is assumed of the network or of the power.  *)
FairSpec ==
  /\ Spec
  /\ WF_vars(Preldr) /\ WF_vars(LdrInit) /\ WF_vars(AppInit)
  /\ WF_vars(HangReset) /\ WF_vars(LdrTick) /\ WF_vars(LdrTimeout)

-----------------------------------------------------------------------------
(* Every variable has its type.                                            *)
TypeOK ==
  /\ mode \in Modes
  /\ loadSrc \in {"NONE", "BOOT", "APP"}
  /\ flash \in [Slot -> [Blocks -> Content]]
  /\ locked \in SUBSET Slot
  /\ erased \in SUBSET (Slot \X Sectors)
  /\ cb \in {"none", "gw", "nd"}
  /\ sess \in [Sess -> SessionState]
  /\ clean \in SUBSET Sess
  /\ stay \in BOOLEAN
  /\ bootDelay \in 0 .. BootDelay
  /\ requests \in 0 .. MaxRequests
  /\ faults \in 0 .. MaxFaults
  /\ lastRun \in Slot \union {"none"}

(* Whatever is uploaded, interrupted or mixed up, one of the two slots     *)
(* holds a complete image of its product (preldr.c, the rule that each     *)
(* program rewrites only the region of the other).                         *)
AlwaysBootable == Valid("LDR") \/ Valid("APP")

(* The strengthening that makes AlwaysBootable inductive: the program that *)
(* runs is intact, so it is the other slot that may be damaged.            *)
RunningImageIntact ==
  /\ mode \in {"ldr_start", "ldr"} => Valid("LDR")
  /\ mode \in {"app_start", "app"} => Valid("APP")
  /\ mode # "dead"

(* While nobody has talked to the bootloader the cached verdict it resets  *)
(* on is the verdict of the flash as it is (ldr.c:113-118 reads g_fw_info  *)
(* that is computed once, and uploads change the flash behind it).         *)
CachedVerdictCurrent == mode = "ldr" /\ ~stay => locked = Locks(flash)

(* Before the main loops nobody has been heard, and without a request the  *)
(* bootloader has no transfer that could change the flash.                 *)
QuietUntilRequest ==
  mode \notin {"ldr", "app"} \/ (mode = "ldr" /\ ~stay)
    => ~stay /\ \A s \in Sess : ~Active(s)

(* The application's slot holds an image that records BOOT itself.         *)
LocksOut == \E i \in LockImages : Holds(flash["APP"], i)

(* What the retention register says about who ran: the value that makes    *)
(* the first stage start the application was left by the bootloader, or by *)
(* an application that takes the bootloader's place and is still there.    *)
LoadSourceTellsWhoRan ==
  /\ loadSrc = "BOOT" => lastRun = "LDR" \/ LocksOut
  /\ mode \in {"ldr_start", "ldr"} => lastRun = "LDR"
  /\ mode = "ldr" => loadSrc = "BOOT"

(* The inductive invariant of the boot chain: what the safety properties   *)
(* follow from, and what every step of the chain preserves.                *)
BootInv ==
  /\ AlwaysBootable
  /\ RunningImageIntact
  /\ CachedVerdictCurrent
  /\ QuietUntilRequest
  /\ LoadSourceTellsWhoRan

(* The bootloader never resets, at the end of the delay, into anything but *)
(* a valid application started next by the first stage.                    *)
TimeoutStartsApp ==
  [][LdrTimeout => (loadSrc' = "BOOT" /\ PreldrChoice' = "APP")]_vars

(* The first stage starts the application only after the bootloader has    *)
(* had its turn, unless there is no valid bootloader, or the application   *)
(* is one that records BOOT itself (boot_and_update_logic.md:59): any      *)
(* other application that can no longer be talked to can be replaced.      *)
LdrGetsItsTurn ==
  [][Preldr /\ mode' = "app_start" /\ Valid("LDR") => lastRun = "LDR" \/ LocksOut]_vars

(* A transfer that no other request interfered with and whose last packet  *)
(* arrives leaves the complete image in the slot of the other program      *)
(* (erase flags, erase on first touch, write order, bounds).               *)
CleanTransferInstalls ==
  [][\A s \in Sess :
       (/\ GoodData(s) /\ s \in clean
        /\ sess[s].next = Size[sess[s].img] - 1 /\ Size[sess[s].img] <= NBlk)
       => Holds(flash'[WriteSlot], sess[s].img)]_vars

-----------------------------------------------------------------------------
HangsIn(slot) == \E i \in HangImages : Holds(flash[slot], i)
Hanging == \E slot \in Slot : HangsIn(slot)

(* Left alone, the gateway ends up in the application, or in a bootloader  *)
(* that was asked to stay or has no application to start.                  *)
Settled ==
  mode = "app" \/ (mode = "ldr" /\ (stay \/ ~Valid("APP")))
EventuallySettles == <>[]~Hanging => <>[]Settled

(* Again and again some program that answers on the network runs, even     *)
(* with an application that hangs at its start. Two uploads can prevent    *)
(* it: a valid bootloader that hangs, and an application that hangs or     *)
(* resets after it has recorded BOOT (boot_and_update_logic.md:59).        *)
Serviceable == []<>(mode \in {"ldr", "app"} \/ HangsIn("LDR") \/ LocksOut)
=============================================================================
