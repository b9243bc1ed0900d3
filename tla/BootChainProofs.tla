-------------------------- MODULE BootChainProofs --------------------------
(***************************************************************************)
(* Proofs about the boot chain, for any number of blocks, sectors, images  *)
(* and sessions: type correctness, the inductive invariant BootInv, that a *)
(* bootable image always exists, that the bootloader resets only into a    *)
(* valid application, that it gets its turn between two runs of the        *)
(* application, and that an undisturbed transfer installs its image.       *)
(***************************************************************************)
EXTENDS BootChain, TLAPS

(* The facts about the constants that every step below may use.            *)
USE ImagesAssumption, SizeAssumption, BoundsAssumption

(* A write keeps the flash well typed, touches the erase flags of its own  *)
(* sector only, and leaves every slot but the one it writes alone.         *)
LEMMA WriteBlockType ==
  ASSUME TypeOK, NEW b \in Nat, NEW c \in Content, NEW ok \in BOOLEAN,
         WriteBlock(b, c, ok)
  PROVE  /\ flash' \in [Slot -> [Blocks -> Content]]
         /\ erased' \in SUBSET (Slot \X Sectors)
         /\ \A slot \in Slot : slot # WriteSlot => flash'[slot] = flash[slot]
<1>1. CASE cb = "gw" /\ InBounds(b)
  <2>1. WriteSlot \in Slot /\ b \in Blocks /\ SectorOf[b] \in Sectors
    BY <1>1 DEF WriteSlot, Slot, Blocks, InBounds, Sectors
  <2>2. AfterErase(WriteSlot, b) \in [Blocks -> Content]
    BY <2>1 DEF AfterErase, TypeOK, Content
  <2>3. FlashWrite(WriteSlot, b, c)
    BY <1>1 DEF WriteBlock
  <2>. DEFINE new == IF Programmable(WriteSlot, b, c) THEN c ELSE Junk
  <2>4. new \in Content
    BY DEF Content
  <2>5. flash' = [flash EXCEPT ![WriteSlot] = [AfterErase(WriteSlot, b) EXCEPT ![b] = new]]
    BY <2>3 DEF FlashWrite
  <2>6. [AfterErase(WriteSlot, b) EXCEPT ![b] = new] \in [Blocks -> Content]
    BY <2>2, <2>4
  <2>7. erased' = erased \union {<<WriteSlot, SectorOf[b]>>}
    BY <2>3 DEF FlashWrite
  <2>. HIDE DEF new
  <2>. QED
    BY <2>1, <2>5, <2>6, <2>7 DEF TypeOK
<1>2. CASE ~(cb = "gw" /\ InBounds(b))
  <2>1. UNCHANGED <<flash, erased>>
    BY <1>2 DEF WriteBlock
  <2>. QED
    BY <2>1 DEF TypeOK
<1>. QED
  BY <1>1, <1>2

(* What a packet does, whichever content it carries.                       *)
LEMMA DataPacketEffect ==
  ASSUME TypeOK, NEW s \in Sess, NEW c \in Content, DataPacket(s, c)
  PROVE  /\ mode \in {"ldr", "app"} /\ Active(s)
         /\ flash' \in [Slot -> [Blocks -> Content]]
         /\ erased' \in SUBSET (Slot \X Sectors)
         /\ \A slot \in Slot : slot # WriteSlot => flash'[slot] = flash[slot]
         /\ sess' \in [Sess -> SessionState]
         /\ locked' \in SUBSET Slot
         /\ UNCHANGED <<mode, loadSrc, cb, clean, stay, bootDelay, requests, faults, lastRun>>
<1>1. PICK ok \in BOOLEAN :
        /\ WriteBlock(sess[s].next, c, ok)
        /\ sess' = [sess EXCEPT ![s] =
             IF (c = Junk \/ sess[s].next = Size[sess[s].img] - 1) \/ ~ok
             THEN Idle ELSE [@ EXCEPT !.next = sess[s].next + 1]]
  BY DEF DataPacket
<1>2. sess[s] \in SessionState /\ sess[s].next \in Nat
  BY DEF TypeOK, SessionState
<1>3. /\ flash' \in [Slot -> [Blocks -> Content]]
      /\ erased' \in SUBSET (Slot \X Sectors)
      /\ \A slot \in Slot : slot # WriteSlot => flash'[slot] = flash[slot]
  BY <1>1, <1>2, WriteBlockType
<1>4. Idle \in SessionState /\ [sess[s] EXCEPT !.next = sess[s].next + 1] \in SessionState
  BY <1>2 DEF Idle, SessionState
<1>5. sess' \in [Sess -> SessionState]
  BY <1>1, <1>4 DEF TypeOK
<1>6. locked' \in SUBSET Slot
  BY DEF DataPacket, TypeOK, Locks
<1>7. /\ mode \in {"ldr", "app"} /\ Active(s)
      /\ UNCHANGED <<mode, loadSrc, cb, clean, stay, bootDelay, requests, faults, lastRun>>
  BY DEF DataPacket
<1>. QED
  BY <1>3, <1>5, <1>6, <1>7

(* A reset leaves the RAM well typed and quiet.                            *)
LEMMA ResetEffect ==
  ASSUME Reset
  PROVE  /\ mode' = "preldr" /\ ~stay' /\ \A s \in Sess : ~Active(s)'
         /\ locked' \in SUBSET Slot /\ erased' \in SUBSET (Slot \X Sectors)
         /\ clean' \in SUBSET Sess
         /\ cb' = "none" /\ sess' \in [Sess -> SessionState]
         /\ stay' \in BOOLEAN /\ bootDelay' \in 0 .. BootDelay
<1>1. Idle \in SessionState /\ Idle.img = NoImage
  BY DEF Idle, SessionState
<1>2. sess' = [s \in Sess |-> Idle]
  BY DEF Reset, RamReset
<1>3. sess' \in [Sess -> SessionState] /\ \A s \in Sess : ~Active(s)'
  BY <1>1, <1>2 DEF Active
<1>4. bootDelay' \in 0 .. BootDelay
  BY BoundsAssumption DEF Reset, RamReset
<1>5. stay' \in BOOLEAN /\ ~stay'
  BY DEF Reset, RamReset
<1>. QED
  BY <1>3, <1>4, <1>5 DEF Reset, RamReset

-----------------------------------------------------------------------------
(* The initial states are well typed.                                      *)
LEMMA InitType == Init => TypeOK
<1>. SUFFICES ASSUME Init PROVE TypeOK
  OBVIOUS
<1>1. flash \in [Slot -> [Blocks -> Content]]
  <2>1. PICK l \in (LdrImages \ HangImages) \union {Erased},
             a \in (AppImages \ HangImages) \union {Erased} :
          flash = [slot \in Slot |-> [b \in Blocks |-> IF slot = "LDR" THEN l ELSE a]]
    BY DEF Init
  <2>2. l \in Content /\ a \in Content
    BY DEF Content, Images
  <2>. QED
    BY <2>1, <2>2
<1>2. sess \in [Sess -> SessionState]
  BY DEF Init, Idle, SessionState
<1>3. bootDelay \in 0 .. BootDelay /\ requests \in 0 .. MaxRequests /\ faults \in 0 .. MaxFaults
  BY BoundsAssumption DEF Init
<1>. QED
  BY <1>1, <1>2, <1>3 DEF Init, TypeOK, Modes

(* Every step keeps every variable in its type.                            *)
LEMMA NextType == TypeOK /\ [Next]_vars => TypeOK'
<1>. SUFFICES ASSUME TypeOK, [Next]_vars PROVE TypeOK'
  OBVIOUS
<1>1. CASE Preldr
  BY <1>1 DEF TypeOK, Preldr, PreldrChoice, PreldrSource, Modes, Slot, ram
<1>2. CASE LdrInit
  BY <1>2 DEF TypeOK, LdrInit, LdrSource, Locks, Modes
<1>3. CASE AppInit
  BY <1>3 DEF TypeOK, AppInit, Locks, Modes
<1>4. CASE HangReset
  BY <1>4, ResetEffect DEF TypeOK, HangReset, AppHangSource, Modes
<1>5. CASE LdrTick
  <2>1. bootDelay' \in 0 .. BootDelay
    BY <1>5 DEF TypeOK, LdrTick, CountDown
  <2>. QED
    BY <1>5, <2>1 DEF TypeOK, LdrTick
<1>6. CASE LdrTimeout
  BY <1>6, ResetEffect DEF TypeOK, LdrTimeout, Modes
<1>7. CASE Console
  <2>1. requests' \in 0 .. MaxRequests
    BY <1>7 DEF TypeOK, Console
  <2>2. CASE Reset
    BY <1>7, <2>1, <2>2, ResetEffect DEF TypeOK, Console, Modes
  <2>3. CASE ~Reset
    <3>1. /\ locked' \in {locked, Locks(flash)} /\ stay' = TRUE
          /\ UNCHANGED <<mode, erased, cb, sess, clean, bootDelay, loadSrc, flash, faults, lastRun>>
      BY <1>7, <2>3 DEF Console, StayInBoot
    <3>2. locked' \in SUBSET Slot
      BY <3>1 DEF TypeOK, Locks
    <3>. QED
      BY <2>1, <3>1, <3>2 DEF TypeOK
  <2>. QED
    BY <2>2, <2>3
<1>8. CASE OtherRequest
  <2>1. requests' \in 0 .. MaxRequests
    BY <1>8 DEF TypeOK, OtherRequest
  <2>. QED
    BY <1>8, <2>1 DEF TypeOK, OtherRequest, StayInBoot, Locks
<1>9. ASSUME NEW s \in Sess, WriteRequest(s)
      PROVE  TypeOK'
  <2>1. requests' \in 0 .. MaxRequests
    BY <1>9 DEF TypeOK, WriteRequest
  <2>2. PICK kind \in FileKinds, i \in Images :
          /\ cb' = kind
          /\ erased' = EraseFlags(kind)
          /\ sess' = [sess EXCEPT ![s] = [img |-> i, next |-> 0]]
    BY <1>9 DEF WriteRequest
  <2>3. cb' \in {"none", "gw", "nd"}
    BY <2>2 DEF FileKinds
  <2>4. erased' \in SUBSET (Slot \X Sectors)
    BY <2>2 DEF TypeOK, EraseFlags
  <2>5. sess' \in [Sess -> SessionState]
    BY <2>2 DEF TypeOK, SessionState
  <2>6. clean' \in SUBSET Sess
    BY <1>9 DEF WriteRequest
  <2>. QED
    BY <1>9, <2>1, <2>3, <2>4, <2>5, <2>6 DEF TypeOK, WriteRequest, StayInBoot, Locks
<1>10. ASSUME NEW s \in Sess, GoodData(s)
       PROVE  TypeOK'
  <2>1. sess[s].img \in Images
    BY <1>10 DEF TypeOK, SessionState, GoodData, Active
  <2>2. sess[s].img \in Content
    BY <2>1 DEF Content
  <2>. QED
    BY <1>10, <2>2, DataPacketEffect DEF TypeOK, GoodData
<1>11. ASSUME NEW s \in Sess, StrayData(s)
       PROVE  TypeOK'
  <2>1. Junk \in Content
    BY DEF Content
  <2>. QED
    BY <1>11, <2>1, DataPacketEffect DEF TypeOK, StrayData
<1>12. ASSUME NEW s \in Sess, StrayEnd(s)
       PROVE  TypeOK'
  <2>1. sess' \in [Sess -> SessionState]
    BY <1>12 DEF TypeOK, StrayEnd, Idle, SessionState
  <2>. QED
    BY <1>12, <2>1 DEF TypeOK, StrayEnd, Locks
<1>13. CASE PowerLoss
  <2>1. faults' \in 0 .. MaxFaults
    BY <1>13 DEF TypeOK, PowerLoss, Fault
  <2>. QED
    BY <1>13, <2>1, ResetEffect DEF TypeOK, PowerLoss, Fault, Modes
<1>14. ASSUME NEW s \in Sess, TornWrite(s)
       PROVE  TypeOK'
  <2>1. faults' \in 0 .. MaxFaults
    BY <1>14 DEF TypeOK, TornWrite, Fault
  <2>2. flash' \in [Slot -> [Blocks -> Content]]
    BY <1>14 DEF TypeOK, TornWrite, WriteSlot, Slot, Content
  <2>. QED
    BY <1>14, <2>1, <2>2, ResetEffect DEF TypeOK, TornWrite, Fault, Modes
<1>15. CASE UNCHANGED vars
  BY <1>15 DEF TypeOK, vars, ram
<1>. QED
  BY <1>1, <1>2, <1>3, <1>4, <1>5, <1>6, <1>7, <1>8, <1>9, <1>10, <1>11, <1>12,
     <1>13, <1>14, <1>15 DEF Next, Firmware, Network, Environment

(* Every variable always has its type.                                     *)
THEOREM TypeCorrect == Spec => []TypeOK
BY InitType, NextType, PTL DEF Spec

-----------------------------------------------------------------------------
(* The cached verdict names exactly the slots that are not valid.          *)
LEMMA LocksAreInvalid == \A slot \in Slot : slot \in Locks(flash) <=> ~Valid(slot)
BY DEF Locks, Valid

(* The choice of the first stage is a valid slot, or there is none.        *)
LEMMA ChoiceIsValid ==
  /\ PreldrChoice = "APP" => Valid("APP")
  /\ PreldrChoice = "LDR" => Valid("LDR")
  /\ PreldrChoice = "none" => ~Valid("LDR") /\ ~Valid("APP")
  /\ PreldrChoice \in Slot \union {"none"}
BY DEF PreldrChoice, Slot

(* A write goes to the slot that does not run: whatever happens to the     *)
(* other slot, the invariant parts about the running image survive.        *)
LEMMA WriteKeepsRunning ==
  ASSUME RunningImageIntact, mode \in {"ldr", "app"},
         \A slot \in Slot : slot # WriteSlot => flash'[slot] = flash[slot]
  PROVE  /\ mode = "ldr" => Valid("LDR")'
         /\ mode = "app" => Valid("APP")'
         /\ AlwaysBootable'
<1>1. CASE mode = "ldr"
  <2>1. flash'["LDR"] = flash["LDR"]
    BY <1>1 DEF WriteSlot, Slot
  <2>. QED
    BY <1>1, <2>1 DEF RunningImageIntact, Valid, AlwaysBootable
<1>2. CASE mode = "app"
  <2>1. flash'["APP"] = flash["APP"]
    BY <1>2 DEF WriteSlot, Slot
  <2>. QED
    BY <1>2, <2>1 DEF RunningImageIntact, Valid, AlwaysBootable
<1>. QED
  BY <1>1, <1>2

(* A write of the bootloader is one of a program the register may name,    *)
(* and one of the application leaves its own image alone: what a BOOT in   *)
(* the retention register says stays true.                                 *)
LEMMA WriteKeepsSource ==
  ASSUME LoadSourceTellsWhoRan, mode \in {"ldr", "app"},
         \A slot \in Slot : slot # WriteSlot => flash'[slot] = flash[slot]
  PROVE  loadSrc = "BOOT" => lastRun = "LDR" \/ LocksOut'
<1>1. CASE mode = "ldr"
  BY <1>1 DEF LoadSourceTellsWhoRan
<1>2. CASE mode = "app"
  <2>1. flash'["APP"] = flash["APP"]
    BY <1>2 DEF WriteSlot, Slot
  <2>. QED
    BY <2>1 DEF LoadSourceTellsWhoRan, LocksOut
<1>. QED
  BY <1>1, <1>2

(* A step that leaves the flash alone leaves the image that locks out.     *)
LEMMA LocksOutStays == UNCHANGED flash => LocksOut' = LocksOut
BY DEF LocksOut

(* An application that records BOOT is, being intact, one that locks out.  *)
LEMMA HangSource ==
  ASSUME BootInv, HangReset
  PROVE  loadSrc' = "BOOT" => lastRun = "LDR" \/ LocksOut
<1>1. CASE mode = "ldr_start"
  BY <1>1 DEF BootInv, LoadSourceTellsWhoRan
<1>2. CASE mode = "app_start"
  <2>1. PICK i \in AppImages : Holds(flash["APP"], i)
    BY <1>2 DEF BootInv, RunningImageIntact, Valid, Expected
  <2>2. 0 \in 0 .. Size[i] - 1
    BY DEF Images
  <2>3. flash["APP"][0] = i
    BY <2>1, <2>2 DEF Holds
  <2>4. flash["APP"][0] \in LockImages => LocksOut
    BY <2>1, <2>3 DEF LocksOut
  <2>5. loadSrc' \in AppHangSource
    BY <1>2 DEF HangReset
  <2>6. loadSrc = "BOOT" => lastRun = "LDR" \/ LocksOut
    BY DEF BootInv, LoadSourceTellsWhoRan
  <2>. QED
    BY <2>4, <2>5, <2>6 DEF AppHangSource
<1>. QED
  BY <1>1, <1>2 DEF HangReset

(* A reset re-establishes everything, provided a bootable image is left    *)
(* and the retention register does not claim more than it did.             *)
LEMMA ResetKeepsBootInv ==
  ASSUME Reset, AlwaysBootable', UNCHANGED lastRun,
         loadSrc' = "BOOT" => lastRun = "LDR" \/ LocksOut'
  PROVE  BootInv'
<1>1. mode' = "preldr" /\ ~stay' /\ \A s \in Sess : ~Active(s)'
  BY ResetEffect
<1>. QED
  BY <1>1 DEF BootInv, RunningImageIntact, CachedVerdictCurrent, QuietUntilRequest,
              LoadSourceTellsWhoRan

(* A request or a packet: the program goes on running in its loop.         *)
LEMMA LoopKeepsBootInv ==
  ASSUME BootInv, mode \in {"ldr", "app"}, UNCHANGED <<mode, loadSrc, lastRun>>,
         \A slot \in Slot : slot # WriteSlot => flash'[slot] = flash[slot],
         mode = "ldr" => stay'
  PROVE  BootInv'
<1>1. /\ mode = "ldr" => Valid("LDR")'
      /\ mode = "app" => Valid("APP")'
      /\ AlwaysBootable'
  BY WriteKeepsRunning DEF BootInv
<1>2. loadSrc = "BOOT" => lastRun = "LDR" \/ LocksOut'
  BY WriteKeepsSource DEF BootInv
<1>. QED
  BY <1>1, <1>2 DEF BootInv, RunningImageIntact, CachedVerdictCurrent, QuietUntilRequest,
              LoadSourceTellsWhoRan

(* A packet of an open session: the bootloader has been told to stay when  *)
(* the session was opened.                                                 *)
LEMMA PacketKeepsBootInv ==
  ASSUME TypeOK, BootInv, NEW s \in Sess, NEW c \in Content, DataPacket(s, c)
  PROVE  BootInv'
<1>1. mode = "ldr" => stay
  BY DataPacketEffect DEF BootInv, QuietUntilRequest
<1>. QED
  BY <1>1, DataPacketEffect, LoopKeepsBootInv

(* The invariant holds of a fresh board.                                   *)
LEMMA InitBoot == Init => BootInv
<1>. SUFFICES ASSUME Init PROVE BootInv
  OBVIOUS
<1>1. AlwaysBootable
  <2>1. PICK slot \in Slot : slot \notin Locks(flash)
    BY DEF Init, Locks
  <2>. QED
    BY <2>1, LocksAreInvalid DEF AlwaysBootable, Slot
<1>2. \A s \in Sess : ~Active(s)
  BY DEF Init, Active, Idle
<1>3. mode = "preldr" /\ loadSrc = "NONE" /\ ~stay
  BY DEF Init
<1>. QED
  BY <1>1, <1>2, <1>3
  DEF BootInv, RunningImageIntact, CachedVerdictCurrent, QuietUntilRequest,
      LoadSourceTellsWhoRan

(* Every step preserves the invariant.                                     *)
LEMMA NextBoot == TypeOK /\ BootInv /\ [Next]_vars => BootInv'
<1>. SUFFICES ASSUME TypeOK, BootInv, [Next]_vars PROVE BootInv'
  OBVIOUS
<1>. USE DEF BootInv
<1>1. CASE Preldr
  <2>1. mode' # "dead" /\ (mode' = "ldr_start" => Valid("LDR"))
        /\ (mode' = "app_start" => Valid("APP")) /\ mode' \in {"ldr_start", "app_start"}
        /\ (mode' = "ldr_start" => lastRun' = "LDR")
    BY <1>1, ChoiceIsValid DEF Preldr, AlwaysBootable, Slot
  <2>2. loadSrc' = "NONE" /\ UNCHANGED <<flash, sess, stay>> /\ mode = "preldr"
    BY <1>1 DEF Preldr, PreldrSource, ram
  <2>3. AlwaysBootable' /\ RunningImageIntact'
    BY <2>1, <2>2 DEF AlwaysBootable, RunningImageIntact, Valid
  <2>4. QuietUntilRequest'
    BY <2>1, <2>2 DEF QuietUntilRequest, Active
  <2>. QED
    BY <2>1, <2>2, <2>3, <2>4 DEF CachedVerdictCurrent, LoadSourceTellsWhoRan
<1>2. CASE LdrInit
  <2>1. /\ mode = "ldr_start" /\ mode' = "ldr" /\ loadSrc' = "BOOT" /\ locked' = Locks(flash)
        /\ UNCHANGED <<flash, sess, stay, lastRun>>
    BY <1>2 DEF LdrInit, LdrSource
  <2>2. AlwaysBootable' /\ RunningImageIntact'
    BY <2>1 DEF AlwaysBootable, RunningImageIntact, Valid
  <2>3. QuietUntilRequest'
    BY <2>1 DEF QuietUntilRequest, Active
  <2>. QED
    BY <2>1, <2>2, <2>3 DEF CachedVerdictCurrent, LoadSourceTellsWhoRan
<1>3. CASE AppInit
  <2>1. /\ mode = "app_start" /\ mode' = "app" /\ loadSrc' = "APP"
        /\ UNCHANGED <<flash, sess, stay, lastRun>>
    BY <1>3 DEF AppInit
  <2>2. AlwaysBootable' /\ RunningImageIntact'
    BY <2>1 DEF AlwaysBootable, RunningImageIntact, Valid
  <2>. QED
    BY <2>1, <2>2 DEF CachedVerdictCurrent, LoadSourceTellsWhoRan, QuietUntilRequest
<1>4. CASE HangReset
  <2>1. AlwaysBootable'
    BY <1>4 DEF HangReset, AlwaysBootable, Valid
  <2>2. loadSrc' = "BOOT" => lastRun = "LDR" \/ LocksOut
    BY <1>4, HangSource
  <2>. QED
    BY <1>4, <2>1, <2>2, ResetKeepsBootInv, LocksOutStays DEF HangReset
<1>5. CASE LdrTick
  <2>1. UNCHANGED <<mode, loadSrc, flash, locked, sess, stay, lastRun>>
    BY <1>5 DEF LdrTick
  <2>. QED
    BY <2>1, LocksOutStays
    DEF AlwaysBootable, RunningImageIntact, CachedVerdictCurrent, QuietUntilRequest,
        LoadSourceTellsWhoRan, Valid, Locks, Active
<1>6. CASE LdrTimeout
  <2>1. AlwaysBootable'
    BY <1>6 DEF LdrTimeout, AlwaysBootable, Valid
  <2>. QED
    BY <1>6, <2>1, ResetKeepsBootInv, LocksOutStays DEF LdrTimeout, LoadSourceTellsWhoRan
<1>7. CASE Console
  <2>1. CASE Reset
    <3>1. AlwaysBootable'
      BY <1>7 DEF Console, AlwaysBootable, Valid
    <3>. QED
      BY <1>7, <2>1, <3>1, ResetKeepsBootInv, LocksOutStays DEF Console, LoadSourceTellsWhoRan
  <2>2. CASE ~Reset
    <3>1. stay' /\ UNCHANGED <<mode, loadSrc, flash, lastRun>> /\ mode \in {"ldr", "app"}
      BY <1>7, <2>2 DEF Console, StayInBoot
    <3>. QED
      BY <3>1, LoopKeepsBootInv
  <2>. QED
    BY <2>1, <2>2
<1>8. CASE OtherRequest
  <2>1. stay' /\ UNCHANGED <<mode, loadSrc, flash, lastRun>> /\ mode \in {"ldr", "app"}
    BY <1>8 DEF OtherRequest, StayInBoot
  <2>. QED
    BY <2>1, LoopKeepsBootInv
<1>9. ASSUME NEW s \in Sess, WriteRequest(s)
      PROVE  BootInv'
  <2>1. stay' /\ UNCHANGED <<mode, loadSrc, flash, lastRun>> /\ mode \in {"ldr", "app"}
    BY <1>9 DEF WriteRequest, StayInBoot
  <2>. QED
    BY <2>1, LoopKeepsBootInv
<1>10. ASSUME NEW s \in Sess, GoodData(s)
       PROVE  BootInv'
  <2>1. sess[s].img \in Content
    BY <1>10 DEF TypeOK, SessionState, GoodData, Active, Content
  <2>. QED
    BY <1>10, <2>1, PacketKeepsBootInv DEF GoodData
<1>11. ASSUME NEW s \in Sess, StrayData(s)
       PROVE  BootInv'
  <2>1. Junk \in Content
    BY DEF Content
  <2>. QED
    BY <1>11, <2>1, PacketKeepsBootInv DEF StrayData
<1>12. ASSUME NEW s \in Sess, StrayEnd(s)
       PROVE  BootInv'
  <2>1. Active(s) /\ UNCHANGED <<mode, loadSrc, flash, stay, lastRun>> /\ mode \in {"ldr", "app"}
    BY <1>12 DEF StrayEnd
  <2>2. mode = "ldr" => stay
    BY <2>1 DEF QuietUntilRequest
  <2>. QED
    BY <2>1, <2>2, LoopKeepsBootInv
<1>13. CASE PowerLoss
  <2>1. AlwaysBootable'
    BY <1>13 DEF PowerLoss, AlwaysBootable, Valid
  <2>. QED
    BY <1>13, <2>1, ResetKeepsBootInv, LocksOutStays
    DEF PowerLoss, Fault, LoadSourceTellsWhoRan
<1>14. ASSUME NEW s \in Sess, TornWrite(s)
       PROVE  BootInv'
  <2>1. \A slot \in Slot : slot # WriteSlot => flash'[slot] = flash[slot]
    BY <1>14 DEF TornWrite, TypeOK
  <2>2. AlwaysBootable'
    BY <1>14, <2>1, WriteKeepsRunning DEF TornWrite
  <2>3. loadSrc = "BOOT" => lastRun = "LDR" \/ LocksOut'
    BY <1>14, <2>1, WriteKeepsSource DEF TornWrite
  <2>. QED
    BY <1>14, <2>2, <2>3, ResetKeepsBootInv DEF TornWrite, Fault
<1>15. CASE UNCHANGED vars
  BY <1>15, LocksOutStays
  DEF vars, ram, AlwaysBootable, RunningImageIntact, CachedVerdictCurrent,
      QuietUntilRequest, LoadSourceTellsWhoRan, Valid, Locks, Active
<1>. QED
  BY <1>1, <1>2, <1>3, <1>4, <1>5, <1>6, <1>7, <1>8, <1>9, <1>10, <1>11, <1>12,
     <1>13, <1>14, <1>15 DEF Next, Firmware, Network, Environment

(* The inductive invariant holds in every reachable state.                 *)
THEOREM BootInvHolds == Spec => []BootInv
BY TypeCorrect, InitBoot, NextBoot, PTL DEF Spec

(* Whatever is uploaded, interrupted or mixed up, the gateway can boot:    *)
(* one of the two regions always holds a complete image of its product.    *)
THEOREM Bootable == Spec => []AlwaysBootable
<1>1. BootInv => AlwaysBootable
  BY DEF BootInv
<1>. QED
  BY <1>1, BootInvHolds, PTL

(* The verdict the bootloader acts on after its delay is never stale.      *)
THEOREM VerdictNeverStale == Spec => []CachedVerdictCurrent
<1>1. BootInv => CachedVerdictCurrent
  BY DEF BootInv
<1>. QED
  BY <1>1, BootInvHolds, PTL

(* The reset at the end of the boot delay is always followed by the start  *)
(* of a valid application.                                                 *)
THEOREM TimeoutLeadsToApp == Spec => TimeoutStartsApp
<1>1. TypeOK /\ BootInv /\ [Next]_vars
        => [LdrTimeout => (loadSrc' = "BOOT" /\ PreldrChoice' = "APP")]_vars
  <2>. SUFFICES ASSUME TypeOK, BootInv, LdrTimeout
                PROVE  loadSrc' = "BOOT" /\ PreldrChoice' = "APP"
    OBVIOUS
  <2>1. /\ mode = "ldr" /\ ~stay /\ "APP" \notin locked
        /\ UNCHANGED <<loadSrc, flash>>
    BY DEF LdrTimeout, AppUnlocked
  <2>2. loadSrc' = "BOOT"
    BY <2>1 DEF BootInv, LoadSourceTellsWhoRan
  <2>3. Valid("APP")
    BY <2>1, LocksAreInvalid DEF BootInv, CachedVerdictCurrent, Slot
  <2>4. Valid("APP")'
    BY <2>1, <2>3 DEF Valid
  <2>. QED
    BY <2>2, <2>4 DEF PreldrChoice
<1>. QED
  BY <1>1, TypeCorrect, BootInvHolds, PTL DEF Spec, TimeoutStartsApp

(* Between two runs of the application a valid bootloader has its turn,    *)
(* unless the application records BOOT itself.                             *)
THEOREM LdrTurnGuaranteed == Spec => LdrGetsItsTurn
<1>1. BootInv /\ [Next]_vars
        => [Preldr /\ mode' = "app_start" /\ Valid("LDR") => lastRun = "LDR" \/ LocksOut]_vars
  <2>. SUFFICES ASSUME BootInv, Preldr, mode' = "app_start", Valid("LDR")
                PROVE  lastRun = "LDR" \/ LocksOut
    OBVIOUS
  <2>1. PreldrChoice = "APP"
    BY ChoiceIsValid DEF Preldr, Slot
  <2>2. loadSrc = "BOOT"
    BY <2>1 DEF PreldrChoice
  <2>. QED
    BY <2>2 DEF BootInv, LoadSourceTellsWhoRan
<1>. QED
  BY <1>1, BootInvHolds, PTL DEF Spec, LdrGetsItsTurn
-----------------------------------------------------------------------------
(* How far the transfer of session s has come in the slot it writes: the   *)
(* blocks it has sent are there, and what is not sent yet of the sectors   *)
(* it has erased is still blank.                                           *)
Installing(s) ==
  \A b \in Blocks :
    /\ b < sess[s].next => /\ <<WriteSlot, SectorOf[b]>> \in erased
                           /\ flash[WriteSlot][b] = sess[s].img
    /\ b >= sess[s].next /\ <<WriteSlot, SectorOf[b]>> \in erased
         => flash[WriteSlot][b] = Erased

(* A session nobody interfered with is the only one, writes to the other   *)
(* slot, and has installed what it has sent.                               *)
CleanInv ==
  \A s \in clean :
    /\ mode \in {"ldr", "app"} /\ cb = "gw"
    /\ \A u \in Sess : Active(u) => u = s
    /\ Active(s) => Installing(s)

(* The next block of a transfer that is installed so far: it is written,   *)
(* and no other block of the image or of an erased sector is disturbed.    *)
LEMMA GoodBlock ==
  ASSUME TypeOK, NEW s \in Sess, Active(s), cb = "gw", Installing(s),
         NEW ok \in BOOLEAN, WriteBlock(sess[s].next, sess[s].img, ok),
         sess[s].next < NBlk
  PROVE  /\ ok
         /\ \A b \in Blocks :
              /\ b <= sess[s].next => /\ <<WriteSlot, SectorOf[b]>> \in erased'
                                      /\ flash'[WriteSlot][b] = sess[s].img
              /\ b > sess[s].next /\ <<WriteSlot, SectorOf[b]>> \in erased'
                   => flash'[WriteSlot][b] = Erased
<1>. DEFINE k == sess[s].next
            i == sess[s].img
            old == AfterErase(WriteSlot, k)
<1>1. k \in Blocks /\ k \in Nat /\ i \in Images /\ i # Junk /\ WriteSlot \in Slot
  BY DEF TypeOK, SessionState, Active, Blocks, WriteSlot, Slot
<1>2. /\ flash' = [flash EXCEPT ![WriteSlot] =
                     [old EXCEPT ![k] = IF Programmable(WriteSlot, k, i) THEN i ELSE Junk]]
      /\ erased' = erased \union {<<WriteSlot, SectorOf[k]>>}
      /\ ok = Programmable(WriteSlot, k, i)
  BY DEF WriteBlock, FlashWrite, InBounds
<1>3. DOMAIN old = Blocks
  BY <1>1 DEF AfterErase, TypeOK
<1>4. \A b \in Blocks : (b <= k <=> b < k \/ b = k) /\ (b > k => b >= k /\ b # k) /\ k >= k
  BY <1>1 DEF Blocks
<1>5. \A b \in Blocks : <<WriteSlot, SectorOf[b]>> \in erased'
        => <<WriteSlot, SectorOf[b]>> \in erased \/ SectorOf[b] = SectorOf[k]
  BY <1>2
<1>6. \A b \in Blocks : /\ b < k => old[b] = i
                        /\ b >= k /\ <<WriteSlot, SectorOf[b]>> \in erased' => old[b] = Erased
  <2>1. CASE <<WriteSlot, SectorOf[k]>> \in erased
    BY <1>2, <2>1 DEF AfterErase, Installing
  <2>2. CASE <<WriteSlot, SectorOf[k]>> \notin erased
    <3>1. \A b \in Blocks : old[b] = IF SectorOf[b] = SectorOf[k] THEN Erased
                                                                 ELSE flash[WriteSlot][b]
      BY <2>2 DEF AfterErase
    <3>2. \A b \in Blocks : b < k => SectorOf[b] # SectorOf[k]
      BY <2>2 DEF Installing
    <3>. QED
      BY <1>5, <3>1, <3>2 DEF Installing
  <2>. QED
    BY <2>1, <2>2
<1>. HIDE DEF old
<1>7. old[k] = Erased
  <2>1. <<WriteSlot, SectorOf[k]>> \in erased'
    BY <1>2
  <2>. QED
    BY <1>1, <1>4, <1>6, <2>1
<1>8. Programmable(WriteSlot, k, i)
  BY <1>7 DEF Programmable, old
<1>9. flash'[WriteSlot] = [old EXCEPT ![k] = i]
  BY <1>1, <1>2, <1>8 DEF TypeOK
<1>10. \A b \in Blocks : flash'[WriteSlot][b] = IF b = k THEN i ELSE old[b]
  BY <1>3, <1>9
<1>11. \A b \in Blocks : b <= k => <<WriteSlot, SectorOf[b]>> \in erased'
  BY <1>2, <1>4 DEF Installing
<1>. HIDE DEF k, i
<1>12. \A b \in Blocks : b <= k => flash'[WriteSlot][b] = i
  BY <1>4, <1>6, <1>10
<1>13. \A b \in Blocks : b > k /\ <<WriteSlot, SectorOf[b]>> \in erased'
         => flash'[WriteSlot][b] = Erased
  BY <1>4, <1>6, <1>10
<1>. QED
  BY <1>2, <1>8, <1>11, <1>12, <1>13 DEF k, i

(* Nothing of a transfer is disturbed by a step that leaves the flash, the *)
(* erase flags and the sessions alone.                                     *)
LEMMA QuietKeepsClean ==
  ASSUME CleanInv, clean' = {} \/ UNCHANGED <<mode, flash, erased, cb, sess, clean>>
  PROVE  CleanInv'
<1>1. CASE clean' = {}
  BY <1>1 DEF CleanInv
<1>2. CASE UNCHANGED <<mode, flash, erased, cb, sess, clean>>
  BY <1>2 DEF CleanInv, Installing, Active, WriteSlot
<1>. QED
  BY <1>1, <1>2

(* A session that is closed leaves no transfer to speak of.                *)
LEMMA CloseKeepsClean ==
  ASSUME TypeOK, CleanInv, NEW s \in Sess, Active(s), sess' = [sess EXCEPT ![s] = Idle],
         UNCHANGED <<mode, cb, clean>>
  PROVE  CleanInv'
<1>1. \A u \in Sess : ~Active(u)' \/ (u # s /\ Active(u))
  BY DEF TypeOK, Active, Idle
<1>2. \A u \in clean : u \in Sess /\ \A v \in Sess : ~Active(v)'
  BY <1>1 DEF CleanInv, TypeOK
<1>. QED
  BY <1>2 DEF CleanInv

(* A packet of the file goes on with the transfer, or ends it.             *)
LEMMA GoodKeepsClean ==
  ASSUME TypeOK, CleanInv, NEW s \in Sess, GoodData(s)
  PROVE  CleanInv'
<1>1. Active(s) /\ UNCHANGED <<mode, cb, clean>>
  BY DEF GoodData, DataPacket
<1>2. PICK ok \in BOOLEAN :
        /\ WriteBlock(sess[s].next, sess[s].img, ok)
        /\ sess' = [sess EXCEPT ![s] =
             IF (sess[s].img = Junk \/ sess[s].next = Size[sess[s].img] - 1) \/ ~ok
             THEN Idle ELSE [@ EXCEPT !.next = sess[s].next + 1]]
  BY DEF GoodData, DataPacket
<1>3. CASE sess' = [sess EXCEPT ![s] = Idle]
  BY <1>1, <1>3, CloseKeepsClean
<1>4. CASE sess' # [sess EXCEPT ![s] = Idle]
  <2>1. ok /\ sess' = [sess EXCEPT ![s] = [@ EXCEPT !.next = sess[s].next + 1]]
    BY <1>2, <1>4
  <2>2. /\ sess'[s].img = sess[s].img /\ sess'[s].next = sess[s].next + 1
        /\ sess[s].next \in Nat
        /\ \A u \in Sess : Active(u)' => Active(u)
    BY <2>1 DEF TypeOK, SessionState, Active
  <2>. SUFFICES ASSUME NEW u \in clean'
                PROVE  /\ mode' \in {"ldr", "app"} /\ cb' = "gw"
                       /\ \A v \in Sess : Active(v)' => v = u
                       /\ Active(u)' => Installing(u)'
    BY DEF CleanInv
  <2>3. u \in clean /\ u \in Sess
    BY <1>1 DEF TypeOK
  <2>4. u = s /\ cb = "gw" /\ mode \in {"ldr", "app"} /\ Installing(s)
    BY <1>1, <2>3 DEF CleanInv
  <2>5. sess[s].next < NBlk
    BY <1>2, <2>1, <2>2, <2>4 DEF WriteBlock, InBounds
  <2>6. Installing(s)'
    <3>1. WriteSlot' = WriteSlot
      BY <1>1 DEF WriteSlot
    <3>2. \A b \in Blocks : b \in Nat
      BY DEF Blocks
    <3>3. \A b \in Blocks :
            /\ b <= sess[s].next => /\ <<WriteSlot, SectorOf[b]>> \in erased'
                                    /\ flash'[WriteSlot][b] = sess[s].img
            /\ b > sess[s].next /\ <<WriteSlot, SectorOf[b]>> \in erased'
                 => flash'[WriteSlot][b] = Erased
      BY <1>1, <1>2, <2>4, <2>5, GoodBlock
    <3>4. \A b \in Blocks :
            /\ b < sess[s].next + 1 <=> b <= sess[s].next
            /\ b >= sess[s].next + 1 <=> b > sess[s].next
      BY <2>2, <3>2
    <3>. QED
      BY <2>2, <3>1, <3>3, <3>4 DEF Installing
  <2>. QED
    BY <1>1, <2>2, <2>3, <2>4, <2>6 DEF CleanInv
<1>. QED
  BY <1>3, <1>4

(* A packet that is not of the file is written too, and ends the session.  *)
LEMMA StrayKeepsClean ==
  ASSUME TypeOK, CleanInv, NEW s \in Sess, StrayData(s)
  PROVE  CleanInv'
<1>1. Active(s) /\ UNCHANGED <<mode, cb, clean>>
  BY DEF StrayData, DataPacket
<1>2. sess' = [sess EXCEPT ![s] = Idle]
  BY DEF StrayData, DataPacket
<1>. QED
  BY <1>1, <1>2, CloseKeepsClean

(* A write request for the gateway's own file that finds no other session  *)
(* open begins a transfer with no sector erased.                           *)
LEMMA OpenKeepsClean ==
  ASSUME TypeOK, CleanInv, NEW s \in Sess, WriteRequest(s)
  PROVE  CleanInv'
<1>1. PICK kind \in FileKinds, i \in Images :
        /\ cb' = kind
        /\ erased' = EraseFlags(kind)
        /\ sess' = [sess EXCEPT ![s] = [img |-> i, next |-> 0]]
        /\ clean' = IF kind = "gw" /\ \A u \in Sess : ~Active(u) THEN {s} ELSE {}
  BY DEF WriteRequest
<1>2. CASE kind = "gw" /\ \A u \in Sess : ~Active(u)
  <2>1. clean' = {s} /\ erased' = {} /\ cb' = "gw" /\ mode' = mode /\ mode \in {"ldr", "app"}
    BY <1>1, <1>2 DEF EraseFlags, WriteRequest
  <2>2. \A u \in Sess : Active(u)' => u = s
    BY <1>1, <1>2 DEF TypeOK, Active
  <2>3. sess'[s].next = 0
    BY <1>1 DEF TypeOK
  <2>4. Installing(s)'
    BY <2>1, <2>3 DEF Installing, Blocks
  <2>. QED
    BY <2>1, <2>2, <2>4 DEF CleanInv
<1>3. CASE ~(kind = "gw" /\ \A u \in Sess : ~Active(u))
  <2>1. clean' = {}
    BY <1>1, <1>3
  <2>. QED
    BY <2>1, QuietKeepsClean
<1>. QED
  BY <1>2, <1>3

(* Every step preserves what is known of an undisturbed transfer.          *)
LEMMA NextClean == TypeOK /\ CleanInv /\ [Next]_vars => CleanInv'
<1>. SUFFICES ASSUME TypeOK, CleanInv, [Next]_vars PROVE CleanInv'
  OBVIOUS
<1>1. CASE Preldr \/ LdrInit \/ AppInit
  <2>1. clean = {} /\ clean' = clean
    BY <1>1 DEF Preldr, LdrInit, AppInit, CleanInv, ram
  <2>. QED
    BY <2>1, QuietKeepsClean
<1>2. CASE HangReset \/ LdrTimeout \/ PowerLoss
  BY <1>2, QuietKeepsClean DEF HangReset, LdrTimeout, PowerLoss, Fault, Reset, RamReset
<1>3. CASE LdrTick
  BY <1>3, QuietKeepsClean DEF LdrTick
<1>4. CASE Console
  BY <1>4, QuietKeepsClean DEF Console, Reset, RamReset
<1>5. CASE OtherRequest
  BY <1>5, QuietKeepsClean DEF OtherRequest
<1>6. ASSUME NEW s \in Sess, WriteRequest(s)
      PROVE  CleanInv'
  BY <1>6, OpenKeepsClean
<1>7. ASSUME NEW s \in Sess, GoodData(s)
      PROVE  CleanInv'
  BY <1>7, GoodKeepsClean
<1>8. ASSUME NEW s \in Sess, StrayData(s)
      PROVE  CleanInv'
  BY <1>8, StrayKeepsClean
<1>9. ASSUME NEW s \in Sess, StrayEnd(s)
      PROVE  CleanInv'
  BY <1>9, CloseKeepsClean DEF StrayEnd
<1>10. ASSUME NEW s \in Sess, TornWrite(s)
       PROVE  CleanInv'
  BY <1>10, QuietKeepsClean DEF TornWrite, Fault, Reset, RamReset
<1>11. CASE UNCHANGED vars
  BY <1>11, QuietKeepsClean DEF vars, ram
<1>. QED
  BY <1>1, <1>2, <1>3, <1>4, <1>5, <1>6, <1>7, <1>8, <1>9, <1>10, <1>11
  DEF Next, Firmware, Network, Environment

(* A transfer that no other request interfered with, whose image fits the  *)
(* slot and whose last packet arrives, leaves the complete image there,    *)
(* whatever the slot held before and however its blocks share sectors.     *)
THEOREM CleanTransferCorrect == Spec => CleanTransferInstalls
<1>1. Init => CleanInv
  BY DEF Init, CleanInv
<1>2. Spec => []CleanInv
  BY <1>1, TypeCorrect, NextClean, PTL DEF Spec
<1>3. ASSUME TypeOK, CleanInv, NEW s \in Sess, GoodData(s), s \in clean,
             sess[s].next = Size[sess[s].img] - 1, Size[sess[s].img] <= NBlk
      PROVE  Holds(flash'[WriteSlot], sess[s].img)
  <2>1. /\ Active(s) /\ cb = "gw" /\ Installing(s)
        /\ sess[s].img \in Images /\ Size[sess[s].img] \in Nat /\ sess[s].next \in Nat
    BY <1>3 DEF GoodData, CleanInv, TypeOK, SessionState, Active
  <2>2. PICK ok \in BOOLEAN : WriteBlock(sess[s].next, sess[s].img, ok)
    BY <1>3 DEF GoodData, DataPacket
  <2>3. sess[s].next < NBlk
    BY <1>3, <2>1
  <2>4. \A b \in Blocks : b <= sess[s].next => flash'[WriteSlot][b] = sess[s].img
    BY <1>3, <2>1, <2>2, <2>3, GoodBlock
  <2>5. \A b \in 0 .. Size[sess[s].img] - 1 : b \in Blocks /\ b <= sess[s].next
    BY <1>3, <2>1 DEF Blocks
  <2>. QED
    BY <1>3, <2>4, <2>5 DEF Holds
<1>4. TypeOK /\ CleanInv
        => [\A s \in Sess :
              (/\ GoodData(s) /\ s \in clean
               /\ sess[s].next = Size[sess[s].img] - 1 /\ Size[sess[s].img] <= NBlk)
              => Holds(flash'[WriteSlot], sess[s].img)]_vars
  BY <1>3
<1>. QED
  BY <1>2, <1>4, TypeCorrect, PTL DEF CleanTransferInstalls
=============================================================================
