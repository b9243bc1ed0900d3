------------------------ MODULE ConfigStorageProofs ------------------------
(* The invariants of the configuration storage, for every set of programs, *)
(* tables and contents, and what a load may do.                            *)
EXTENDS ConfigStorage, SequenceTheorems, TLAPS

(* While entries are written there is no CRC, the foreign ones come first  *)
(* and no entry that is still to be written is in the sector already.      *)
WriteInv ==
  /\ config_valid => pc = "run"
  /\ pc \in {"foreign", "native"} => ~whole
  /\ \A i, j \in DOMAIN old : old[i].key = old[j].key => i = j
  /\ pc = "foreign" => \A i \in DOMAIN items :
       /\ items[i].key \notin Keys(prog)
       /\ \E j \in DOMAIN old : j < next /\ items[i].key = old[j].key
  /\ pc = "native" => \A i \in DOMAIN items :
       \/ items[i].key \notin Keys(prog)
       \/ \E j \in DOMAIN Table[prog] : j < next /\ items[i].key = Table[prog][j].key

(* An address is set only if the sector has an entry for it, and no save   *)
(* of the program that runs leaves its own entry out.                      *)
AddrInv ==
  /\ pc = "native" => next # 0
  /\ pc = "native" => \A j \in DOMAIN Table[prog] : j < next =>
       \E i \in DOMAIN items : items[i].key = Table[prog][j].key /\ items[i].size = Table[prog][j].size
  /\ pc # "off" /\ whole => \A k \in Keys(prog) : addr[k] # 0 => Positions(prog, k) # {}
  /\ pc = "off" => ram = [k \in Key |-> Default]

ConfigInv == TypeOK /\ ValidIsWhole /\ NoDuplicates /\ WriteInv /\ AddrInv

(* The entry of the table at t, and what IsForeign asks of a key.          *)
LEMMA TableTypes ==
  ASSUME NEW p \in Prog, NEW t \in DOMAIN Table[p]
  PROVE  /\ Table[p][t] \in [key: Key, size: Width]
         /\ Table[p][t].key \in Keys(p) /\ Table[p][t].key \in Key
         /\ Knows(p, Table[p][t].key, Table[p][t].size)
<1>1. Table[p] \in Seq([key: Key, size: Width])
  BY TableAssumption
<1>2. Table[p][t] \in [key: Key, size: Width]
  BY <1>1, ElementOfSeq, LenProperties
<1>3. Table[p][t] = [key |-> Table[p][t].key, size |-> Table[p][t].size]
  BY <1>2
<1> QED BY <1>2, <1>3 DEF Keys, Knows

(* An entry a program knows has a key of its table.                        *)
LEMMA KnowsKey ==
  ASSUME NEW p \in Prog, NEW k, NEW n, Knows(p, k, n)
  PROVE  k \in Keys(p)
BY DEF Knows, Keys

(* The keys of a table are keys.                                           *)
LEMMA KeysAreKeys == ASSUME NEW p \in Prog PROVE Keys(p) \subseteq Key
BY TableTypes DEF Keys

(* Without duplicates, the entry found for a key is the only one.          *)
LEMMA FoundIsTheOne ==
  ASSUME items \in Seq(Entry), NoDuplicates, NEW p \in Prog, NEW k \in Key, NEW at,
         NEW i \in Positions(p, k)
  PROVE  /\ Positions(p, k) = {i} /\ Found(p, at)[k] = i
         /\ i \in DOMAIN items /\ i \in Nat \ {0} /\ k \in Keys(p)
         /\ items[i] \in Entry /\ items[i].key = k /\ Knows(p, k, items[i].size)
<1>1. i \in DOMAIN items /\ items[i].key = k /\ Knows(p, k, items[i].size)
  BY DEF Positions
<1>2. i \in Nat \ {0} /\ items[i] \in Entry
  BY <1>1, ElementOfSeq, LenProperties
<1>3. \A j \in Positions(p, k) : j = i
  BY <1>1 DEF Positions, NoDuplicates
<1>4. Positions(p, k) = {i}
  BY <1>3
<1>5. (CHOOSE h \in Positions(p, k) : \A j \in Positions(p, k) : j <= h) = i
  <2>1. \A j \in Positions(p, k) : j <= i
    BY <1>2, <1>3
  <2> QED BY <2>1, <1>3
<1>6. Found(p, at)[k] = i
  BY <1>4, <1>5 DEF Found
<1> QED BY <1>1, <1>2, <1>4, <1>6, KnowsKey

(* The addresses config_validate leaves are positions in the sector, or    *)
(* what they were before.                                                  *)
LEMMA FoundTypes ==
  ASSUME items \in Seq(Entry), NoDuplicates, NEW p \in Prog, NEW at \in [Key -> Nat]
  PROVE  /\ Found(p, at) \in [Key -> Nat]
         /\ \A k \in Key : Positions(p, k) = {} => Found(p, at)[k] = at[k]
<1>1. ASSUME NEW k \in Key PROVE Found(p, at)[k] \in Nat
  <2>1. CASE Positions(p, k) = {}
    BY <2>1 DEF Found
  <2>2. ASSUME NEW i \in Positions(p, k) PROVE Found(p, at)[k] \in Nat
    <3>1. Found(p, at)[k] = i /\ i \in Nat
      BY FoundIsTheOne
    <3> QED BY <3>1
  <2> QED BY <2>1, <2>2
<1> QED BY <1>1 DEF Found

(* Every address that is set belongs to an entry that is there.            *)
Current(p, at) == \A k \in Keys(p) : at[k] # 0 => Positions(p, k) # {}

(* What config_read_storage copies right after config_validate: the value  *)
(* stored under the key, if there is one, whatever the old address was.    *)
LEMMA LoadedIsStored ==
  ASSUME items \in Seq(Entry), NoDuplicates, NEW p \in Prog,
         NEW at \in [Key -> Nat], NEW vals \in [Key -> Value],
         Current(p, at), NEW ld, ld = Loaded(p, Found(p, at), vals)
  PROVE  \A k \in Key : /\ ld[k] \in Value
                        /\ ld[k] # vals[k] => k \in Keys(p) /\ StoredFor(p, k) = {ld[k]}
<1> TAKE k \in Key
<1>1. CASE Positions(p, k) = {}
  <2>1. Found(p, at)[k] = at[k] /\ (k \in Keys(p) => at[k] = 0)
    BY <1>1, FoundTypes DEF Current
  <2>2. ld[k] = vals[k]
    BY <2>1 DEF Loaded
  <2> QED BY <2>2
<1>2. ASSUME NEW i \in Positions(p, k)
      PROVE  /\ ld[k] \in Value
             /\ k \in Keys(p) /\ StoredFor(p, k) = {ld[k]}
  <2>1. /\ Positions(p, k) = {i} /\ Found(p, at)[k] = i
        /\ i \in DOMAIN items /\ i # 0 /\ k \in Keys(p)
        /\ items[i] \in Entry /\ items[i].key = k /\ Knows(p, k, items[i].size)
    BY <1>2, FoundIsTheOne
  <2>2. ld[k] = items[i].val
    BY <2>1 DEF Loaded
  <2>3. StoredFor(p, k) = {items[i].val}
    BY <2>1 DEF StoredFor
  <2>4. items[i].val \in Value
    BY <2>1 DEF Entry
  <2> QED BY <2>1, <2>2, <2>3, <2>4
<1> QED BY <1>1, <1>2

-----------------------------------------------------------------------------
(* A load, of a program that boots or restores its settings.               *)
LEMMA ReadBackTypes ==
  ASSUME items \in Seq(Entry), whole \in BOOLEAN, NoDuplicates, NEW p \in Prog,
         NEW at \in [Key -> Nat], NEW vals \in [Key -> Value],
         whole => \A k \in Keys(p) : at[k] # 0 => Positions(p, k) # {},
         ReadBack(p, at, vals)
  PROVE  /\ config_valid' = whole /\ addr' \in [Key -> Nat] /\ ram' \in [Key -> Value]
         /\ whole => \A k \in Keys(p) : addr'[k] # 0 => Positions(p, k) # {}
         /\ \A k \in Key : ram'[k] # vals[k] =>
              whole /\ k \in Keys(p) /\ StoredFor(p, k) = {ram'[k]}
<1>1. CASE ~whole
  BY <1>1 DEF ReadBack
<1>2. CASE whole
  <2>1. /\ config_valid' = whole
        /\ addr' = Found(p, at) /\ ram' = Loaded(p, Found(p, at), vals)
    BY <1>2 DEF ReadBack
  <2>2. \A k \in Key : /\ ram'[k] \in Value
                       /\ ram'[k] # vals[k] => k \in Keys(p) /\ StoredFor(p, k) = {ram'[k]}
    <3>1. Current(p, at)
      BY <1>2 DEF Current
    <3>2. ASSUME NEW ld, ld = Loaded(p, Found(p, at), vals)
          PROVE  \A k \in Key : /\ ld[k] \in Value
                                /\ ld[k] # vals[k] => k \in Keys(p) /\ StoredFor(p, k) = {ld[k]}
      BY <3>1, <3>2, LoadedIsStored
    <3> QED BY <2>1, <3>2
  <2>3. ram' \in [Key -> Value]
    BY <2>1, <2>2 DEF Loaded
  <2>4. \A k \in Keys(p) : addr'[k] # 0 => Positions(p, k) # {}
    <3>1. \A k \in Key : Positions(p, k) = {} => Found(p, at)[k] = at[k]
      BY FoundTypes
    <3>2. \A k \in Keys(p) : k \in Key /\ (at[k] # 0 => Positions(p, k) # {})
      BY <1>2, KeysAreKeys
    <3> QED BY <2>1, <3>1, <3>2
  <2> QED BY <1>2, <2>1, <2>2, <2>3, <2>4, FoundTypes
<1> QED BY <1>1, <1>2

(* The sector of a new board is blank.                                     *)
LEMMA InitInv == Init => ConfigInv
<1> SUFFICES ASSUME Init PROVE ConfigInv
  OBVIOUS
<1>1. <<>> \in Seq(Entry) /\ DOMAIN <<>> = {}
  BY EmptySeq
<1>2. TypeOK
  BY <1>1, ValueAssumption DEF Init, TypeOK
<1>3. ValidIsWhole /\ NoDuplicates /\ WriteInv
  BY <1>1 DEF Init, ValidIsWhole, NoDuplicates, WriteInv
<1>4. AddrInv
  BY <1>1 DEF Init, AddrInv
<1> QED BY <1>2, <1>3, <1>4 DEF ConfigInv

(* The actions that leave the sector alone and do not save.                *)
LEMMA ReadSteps ==
  ASSUME ConfigInv,
         \/ \E p \in Prog : Boot(p)
         \/ \E k \in Key, v \in Value : Set(k, v)
         \/ CfgState \/ Restore
  PROVE  ConfigInv'
<1> USE DEF ConfigInv
<1>t. TypeOK /\ NoDuplicates /\ items \in Seq(Entry) /\ whole \in BOOLEAN
  BY DEF TypeOK
<1>r. pc' = "run" /\ UNCHANGED <<items, whole, old, next, recheck>> /\ prog' \in Prog
  BY DEF Boot, Set, CfgState, Restore, TypeOK, flash, save
<1>v. /\ addr' \in [Key -> Nat] /\ ram' \in [Key -> Value]
      /\ config_valid' \in BOOLEAN /\ (config_valid' => whole)
      /\ whole => \A k \in Keys(prog') : addr'[k] # 0 => Positions(prog', k) # {}
  <2>1. ASSUME NEW p \in Prog, Boot(p) PROVE <1>v
    <3>1. /\ ReadBack(p, [k \in Key |-> 0], [k \in Key |-> Default]) /\ prog' = p
      BY <2>1 DEF Boot
    <3>2. /\ [k \in Key |-> 0] \in [Key -> Nat]
          /\ [k \in Key |-> Default] \in [Key -> Value]
          /\ \A k \in Keys(p) : [kk \in Key |-> 0][k] = 0
      BY ValueAssumption, KeysAreKeys
    <3> QED BY <1>t, <3>1, <3>2, ReadBackTypes
  <2>2. ASSUME NEW k \in Key, NEW v \in Value, Set(k, v) PROVE <1>v
    BY <2>2 DEF Set, TypeOK, ValidIsWhole, AddrInv, flash
  <2>3. CASE CfgState
    <3>1. /\ config_valid' = whole /\ prog \in Prog /\ addr \in [Key -> Nat]
          /\ addr' = IF whole THEN Found(prog, addr) ELSE addr
          /\ UNCHANGED <<prog, ram>>
      BY <2>3 DEF CfgState, Validate, TypeOK
    <3>2. \A k \in Key : Positions(prog, k) = {} => Found(prog, addr)[k] = addr[k]
      BY <1>t, <3>1, FoundTypes
    <3>3. addr' \in [Key -> Nat]
      BY <1>t, <3>1, FoundTypes
    <3>4. whole => \A k \in Keys(prog) : addr'[k] # 0 => Positions(prog, k) # {}
      BY <2>3, <3>1, <3>2, KeysAreKeys DEF AddrInv, CfgState
    <3> QED BY <1>t, <3>1, <3>3, <3>4 DEF TypeOK
  <2>4. CASE Restore
    <3>1. /\ ReadBack(prog, addr, ram) /\ prog' = prog /\ prog \in Prog
          /\ addr \in [Key -> Nat] /\ ram \in [Key -> Value]
          /\ whole => \A k \in Keys(prog) : addr[k] # 0 => Positions(prog, k) # {}
      BY <2>4 DEF Restore, TypeOK, AddrInv
    <3> QED BY <1>t, <3>1, ReadBackTypes
  <2> QED BY <2>1, <2>2, <2>3, <2>4
<1>p. items' = items
  BY <1>r
<1>1. TypeOK'
  BY <1>t, <1>r, <1>v, ValueAssumption DEF TypeOK
<1>2. ValidIsWhole' /\ NoDuplicates' /\ WriteInv'
  BY <1>r, <1>v DEF ValidIsWhole, NoDuplicates, WriteInv
<1>3. AddrInv'
  <2>1. (pc # "off" /\ whole => \A k \in Keys(prog) : addr[k] # 0 => Positions(prog, k) # {})'
    BY <1>v, <1>p, <1>r DEF Positions
  <2> QED BY <1>r, <2>1 DEF AddrInv
<1> QED BY <1>1, <1>2, <1>3

(* The start of a save, and the ways to break one off.                     *)
LEMMA StopSteps ==
  ASSUME ConfigInv, (\E c \in BOOLEAN : WriteStart(c)) \/ Erase \/ Fail \/ PowerLoss
  PROVE  ConfigInv'
<1> USE DEF ConfigInv
<1>t. TypeOK /\ NoDuplicates /\ items \in Seq(Entry) /\ whole \in BOOLEAN
  BY DEF TypeOK
<1>e. <<>> \in Seq(Entry) /\ DOMAIN <<>> = {}
  BY EmptySeq
<1>1. ASSUME NEW c \in BOOLEAN, WriteStart(c) PROVE ConfigInv'
  <2>1. /\ pc = "run" /\ pc' = "erase" /\ config_valid' = FALSE
        /\ UNCHANGED <<items, whole, prog, addr, ram, next>> /\ recheck' \in BOOLEAN
        /\ old' = IF config_valid THEN items ELSE <<>>
    BY <1>1 DEF WriteStart, flash
  <2>2. TypeOK'
    BY <1>t, <1>e, <2>1 DEF TypeOK
  <2>3. ValidIsWhole' /\ NoDuplicates' /\ WriteInv'
    BY <1>t, <1>e, <2>1 DEF ValidIsWhole, NoDuplicates, WriteInv
  <2>4. AddrInv'
    <3>1. items' = items /\ prog' = prog
      BY <2>1
    <3>2. (whole => \A k \in Keys(prog) : addr[k] # 0 => Positions(prog, k) # {})'
      BY <2>1, <3>1 DEF AddrInv, Positions
    <3> QED BY <2>1, <3>2 DEF AddrInv
  <2> QED BY <2>2, <2>3, <2>4
<1>2. CASE Erase
  <2>1. /\ pc = "erase" /\ pc' = "foreign" /\ next' = 1 /\ items' = <<>> /\ whole' = FALSE
        /\ UNCHANGED <<prog, config_valid, addr, ram, old, recheck>>
    BY <1>2 DEF Erase
  <2>2. TypeOK'
    BY <1>t, <1>e, <2>1 DEF TypeOK
  <2>3. ValidIsWhole' /\ NoDuplicates' /\ WriteInv'
    BY <1>t, <1>e, <2>1 DEF ValidIsWhole, NoDuplicates, WriteInv
  <2>4. AddrInv'
    BY <2>1 DEF AddrInv
  <2> QED BY <2>2, <2>3, <2>4
<1>3. CASE Fail
  <2>1. /\ pc \in {"erase", "foreign", "native"} /\ pc' = "run" /\ config_valid' = FALSE
        /\ old' = <<>> /\ next' = 0 /\ recheck' = FALSE
        /\ UNCHANGED <<prog, addr, ram>>
        /\ \/ items' = items /\ whole' = whole
           \/ items' = <<>> /\ whole' = FALSE
    BY <1>3 DEF Fail, FailedValid, FlashBroken, flash
  <2>2. TypeOK'
    BY <1>t, <1>e, <2>1 DEF TypeOK
  <2>3. ValidIsWhole' /\ NoDuplicates' /\ WriteInv'
    BY <1>t, <1>e, <2>1 DEF ValidIsWhole, NoDuplicates, WriteInv
  <2>4. AddrInv'
    <3>1. (whole => \A k \in Keys(prog) : addr[k] # 0 => Positions(prog, k) # {})'
      <4>1. CASE items' = items /\ whole' = whole
        BY <2>1, <4>1 DEF AddrInv, Positions
      <4>2. CASE whole' = FALSE
        BY <4>2
      <4> QED BY <2>1, <4>1, <4>2
    <3> QED BY <2>1, <3>1 DEF AddrInv
  <2> QED BY <2>2, <2>3, <2>4
<1>4. CASE PowerLoss
  <2>1. /\ pc' = "off" /\ prog' = NoProg /\ config_valid' = FALSE
        /\ addr' = [k \in Key |-> 0] /\ ram' = [k \in Key |-> Default]
        /\ old' = <<>> /\ next' = 0 /\ recheck' = FALSE
        /\ \/ items' = items /\ whole' = whole
           \/ items' = <<>> /\ whole' = FALSE
    BY <1>4 DEF PowerLoss, FlashBroken, flash
  <2>2. TypeOK'
    BY <1>t, <1>e, <2>1, ValueAssumption DEF TypeOK
  <2>3. ValidIsWhole' /\ NoDuplicates' /\ WriteInv'
    BY <1>t, <1>e, <2>1 DEF ValidIsWhole, NoDuplicates, WriteInv
  <2>4. AddrInv'
    BY <2>1 DEF AddrInv
  <2> QED BY <2>2, <2>3, <2>4
<1> QED BY <1>1, <1>2, <1>3, <1>4

(* The steps that put entries into the sector, and the CRC.                *)
LEMMA WriteSteps ==
  ASSUME ConfigInv, WriteForeign \/ ForeignWritten \/ WriteNative \/ WriteCrc
  PROVE  ConfigInv'
<1> USE DEF ConfigInv
<1>t. /\ TypeOK /\ NoDuplicates /\ items \in Seq(Entry) /\ whole \in BOOLEAN
      /\ old \in Seq(Entry) /\ next \in Nat
      /\ DOMAIN items = 1 .. Len(items) /\ Len(items) \in Nat
  BY LenProperties DEF TypeOK
<1>p. pc # "off" => prog \in Prog
  BY <1>t DEF TypeOK
<1>1. CASE WriteForeign
  <2> DEFINE e == old[next]
  <2>1. /\ pc = "foreign" /\ next \in DOMAIN old /\ next' = next + 1
        /\ items' = IF e.key \notin Keys(prog) THEN Append(items, e) ELSE items
        /\ UNCHANGED <<whole, pc, prog, config_valid, addr, ram, old, recheck>>
    BY <1>1 DEF WriteForeign, IsForeign
  <2>2. e \in Entry
    BY <1>t, <2>1, ElementOfSeq, LenProperties
  <2>3. TypeOK'
    <3>1. items' \in Seq(Entry) /\ next' \in Nat
      BY <1>t, <2>1, <2>2, AppendProperties
    <3> QED BY <1>t, <2>1, <3>1 DEF TypeOK
  <2>4. \A i \in DOMAIN items : /\ items[i].key \notin Keys(prog)
                                /\ \E j \in DOMAIN old : j < next /\ items[i].key = old[j].key
    BY <2>1 DEF WriteInv
  <2>5. \A i, j \in DOMAIN old : old[i].key = old[j].key => i = j
    BY DEF WriteInv
  <2>o. \A j \in DOMAIN old : j < next => j # next /\ j < next'
    BY <1>t, <2>1, LenProperties
  <2>n. next \in DOMAIN old /\ next < next'
    BY <1>t, <2>1
  <2>6. \A i \in DOMAIN items : items[i].key # e.key
    BY <1>t, <2>1, <2>4, <2>5, <2>o
  <2>7. CASE e.key \in Keys(prog)
    <3>1. items' = items
      BY <2>1, <2>7
    <3>2. NoDuplicates'
      BY <1>t, <3>1 DEF NoDuplicates
    <3>3. \A i \in DOMAIN items' : /\ items'[i].key \notin Keys(prog)
                                   /\ \E j \in DOMAIN old : j < next' /\ items'[i].key = old[j].key
      BY <2>1, <2>4, <2>o, <3>1, <2>7
    <3> QED BY <1>t, <2>1, <2>3, <3>2, <3>3 DEF ValidIsWhole, WriteInv, AddrInv
  <2>8. CASE e.key \notin Keys(prog)
    <3>1. /\ items' = Append(items, e)
          /\ DOMAIN items' = 1 .. Len(items) + 1
          /\ \A i \in DOMAIN items : items'[i] = items[i]
          /\ items'[Len(items) + 1] = e
      BY <1>t, <2>1, <2>2, <2>8, AppendProperties
    <3>2. \A i \in DOMAIN items' : i \in DOMAIN items \/ i = Len(items) + 1
      BY <1>t, <3>1
    <3>3. NoDuplicates'
      BY <1>t, <2>6, <3>1, <3>2 DEF NoDuplicates
    <3>4. \A i \in DOMAIN items' : /\ items'[i].key \notin Keys(prog)
                                   /\ \E j \in DOMAIN old : j < next' /\ items'[i].key = old[j].key
      BY <2>1, <2>4, <2>8, <2>o, <2>n, <3>1, <3>2
    <3> QED BY <1>t, <2>1, <2>3, <3>3, <3>4 DEF ValidIsWhole, WriteInv, AddrInv
  <2> QED BY <2>7, <2>8
<1>2. CASE ForeignWritten
  <2>1. /\ pc = "foreign" /\ pc' = "native" /\ next' = 1
        /\ UNCHANGED <<items, whole, prog, config_valid, addr, ram, old, recheck>>
    BY <1>2 DEF ForeignWritten, flash
  <2>2. TypeOK' /\ ValidIsWhole' /\ NoDuplicates'
    BY <1>t, <2>1 DEF TypeOK, ValidIsWhole, NoDuplicates
  <2>3. WriteInv'
    BY <1>t, <2>1 DEF WriteInv
  <2>4. AddrInv'
    <3>1. Table[prog] \in Seq([key: Key, size: Width])
      BY <1>p, <2>1, TableAssumption
    <3>2. \A j \in DOMAIN Table[prog] : ~(j < 1)
      BY <3>1, LenProperties
    <3>3. ~whole
      BY <2>1 DEF WriteInv
    <3> QED BY <2>1, <3>2, <3>3 DEF AddrInv
  <2> QED BY <2>2, <2>3, <2>4
<1>3. CASE WriteNative
  <2> DEFINE t == Table[prog][next]
             e == NativeEntry(t)
  <2>1. /\ pc = "native" /\ next \in DOMAIN Table[prog] /\ next' = next + 1
        /\ items' = Append(items, e)
        /\ UNCHANGED <<whole, pc, prog, config_valid, addr, ram, old, recheck>>
    BY <1>3 DEF WriteNative
  <2>p. prog \in Prog /\ ram \in [Key -> Value]
    BY <1>t, <1>p, <2>1 DEF TypeOK
  <2>2. /\ t.key \in Key /\ t.size \in Width /\ t.key \in Keys(prog)
        /\ DOMAIN Table[prog] \subseteq Nat
    <3>1. Table[prog] \in Seq([key: Key, size: Width])
      BY <2>p, TableAssumption
    <3>2. DOMAIN Table[prog] \subseteq Nat
      BY <3>1, LenProperties
    <3> QED BY <2>1, <2>p, <3>2, TableTypes
  <2>3. e \in Entry /\ e.key = t.key /\ e.size = t.size
    BY <2>p, <2>2 DEF NativeEntry, Entry
  <2>4. /\ items' \in Seq(Entry) /\ DOMAIN items' = 1 .. Len(items) + 1
        /\ \A i \in DOMAIN items : i \in DOMAIN items' /\ items'[i] = items[i]
        /\ Len(items) + 1 \in DOMAIN items' /\ items'[Len(items) + 1] = e
    BY <1>t, <2>1, <2>3, AppendProperties
  <2>5. \A i \in DOMAIN items' : i \in DOMAIN items \/ i = Len(items) + 1
    BY <1>t, <2>4
  <2>6. TypeOK'
    BY <1>t, <2>1, <2>4 DEF TypeOK
  <2>7. \A i \in DOMAIN items :
          \/ items[i].key \notin Keys(prog)
          \/ \E j \in DOMAIN Table[prog] : j < next /\ items[i].key = Table[prog][j].key
    BY <2>1 DEF WriteInv
  <2>8. \A i, j \in DOMAIN Table[prog] : Table[prog][i].key = Table[prog][j].key => i = j
    BY <2>p, TableAssumption
  <2>n. /\ \A j \in DOMAIN Table[prog] : j < next => j # next /\ j < next'
        /\ next < next' /\ next' # 0
    BY <1>t, <2>1, <2>2
  <2>9. \A i \in DOMAIN items : items[i].key # e.key
    BY <2>1, <2>2, <2>3, <2>7, <2>8, <2>n
  <2>10. NoDuplicates'
    BY <1>t, <2>4, <2>5, <2>9 DEF NoDuplicates
  <2>11. \A i \in DOMAIN items' :
           \/ items'[i].key \notin Keys(prog)
           \/ \E j \in DOMAIN Table[prog] : j < next' /\ items'[i].key = Table[prog][j].key
    BY <2>1, <2>2, <2>3, <2>4, <2>5, <2>7, <2>n
  <2>12. WriteInv'
    BY <2>1, <2>11 DEF WriteInv
  <2>13. \A j \in DOMAIN Table[prog] : j < next' =>
           \E i \in DOMAIN items' : items'[i].key = Table[prog][j].key
                                   /\ items'[i].size = Table[prog][j].size
    <3>1. \A j \in DOMAIN Table[prog] : j < next' => j < next \/ j = next
      BY <1>t, <2>1, <2>2
    <3>2. \A j \in DOMAIN Table[prog] : j < next =>
            \E i \in DOMAIN items : items[i].key = Table[prog][j].key
                                   /\ items[i].size = Table[prog][j].size
      BY <2>1 DEF AddrInv
    <3> QED BY <2>3, <2>4, <3>1, <3>2
  <2>14. ~whole
    BY <2>1 DEF WriteInv
  <2>15. AddrInv' /\ ValidIsWhole'
    BY <2>1, <2>13, <2>14, <2>n DEF ValidIsWhole, WriteInv, AddrInv
  <2> QED BY <2>6, <2>10, <2>12, <2>15
<1>4. CASE WriteCrc
  <2>1. /\ pc = "native" /\ next \notin DOMAIN Table[prog]
        /\ whole' = TRUE /\ pc' = "run" /\ config_valid' = TRUE
        /\ addr' = IF recheck THEN Found(prog, addr) ELSE addr
        /\ old' = <<>> /\ next' = 0 /\ recheck' = FALSE
        /\ UNCHANGED <<items, prog, ram>>
    BY <1>4 DEF WriteCrc, NativeWritten
  <2>p. prog \in Prog /\ addr \in [Key -> Nat]
    BY <1>t, <1>p, <2>1 DEF TypeOK
  <2>e. <<>> \in Seq(Entry) /\ DOMAIN <<>> = {}
    BY EmptySeq
  <2>2. addr' \in [Key -> Nat]
    BY <1>t, <2>1, <2>p, FoundTypes
  <2>3. TypeOK'
    BY <1>t, <2>1, <2>2, <2>e DEF TypeOK
  <2>4. ValidIsWhole' /\ NoDuplicates' /\ WriteInv'
    BY <1>t, <2>1, <2>e DEF ValidIsWhole, NoDuplicates, WriteInv
  <2>6. \A j \in DOMAIN Table[prog] : j < next
    <3>1. /\ DOMAIN Table[prog] = 1 .. Len(Table[prog]) /\ Len(Table[prog]) \in Nat
      BY <2>p, TableAssumption, LenProperties
    <3>2. next # 0 /\ next \in Nat
      BY <1>t, <2>1 DEF AddrInv
    <3> QED BY <2>1, <3>1, <3>2
  <2>5. ASSUME NEW k \in Keys(prog) PROVE Positions(prog, k) # {}
    <3>1. PICK j \in DOMAIN Table[prog] : Table[prog][j].key = k
      BY DEF Keys
    <3>2. \E i \in DOMAIN items : items[i].key = Table[prog][j].key
                                 /\ items[i].size = Table[prog][j].size
      <4>1. j < next
        BY <2>1, <2>p, <2>6
      <4> QED BY <2>1, <4>1 DEF AddrInv
    <3>3. Knows(prog, Table[prog][j].key, Table[prog][j].size)
      BY <2>p, TableTypes
    <3> QED BY <3>1, <3>2, <3>3 DEF Positions
  <2>7. (whole => \A k \in Keys(prog) : addr[k] # 0 => Positions(prog, k) # {})'
    BY <2>1, <2>5 DEF Positions
  <2> QED BY <2>1, <2>3, <2>4, <2>7 DEF AddrInv
<1> QED BY <1>1, <1>2, <1>3, <1>4

(* Every step of validation, save and start keeps the invariant.           *)
LEMMA StepInv == ConfigInv /\ [Next]_vars => ConfigInv'
<1> SUFFICES ASSUME ConfigInv, [Next]_vars PROVE ConfigInv'
  OBVIOUS
<1>1. CASE UNCHANGED vars
  <2>1. UNCHANGED <<items, whole, pc, prog, config_valid, addr, ram, old, next, recheck>>
    BY <1>1 DEF vars, flash, save
  <2>2. TypeOK' /\ ValidIsWhole' /\ NoDuplicates' /\ WriteInv'
    BY <2>1 DEF ConfigInv, TypeOK, ValidIsWhole, NoDuplicates, WriteInv
  <2>3. AddrInv'
    <3>1. (pc # "off" /\ whole => \A k \in Keys(prog) : addr[k] # 0 => Positions(prog, k) # {})'
      BY <2>1 DEF ConfigInv, AddrInv, Positions
    <3> QED BY <2>1, <3>1 DEF ConfigInv, AddrInv
  <2> QED BY <2>2, <2>3 DEF ConfigInv
<1>2. CASE Next
  BY <1>2, ReadSteps, StopSteps, WriteSteps DEF Next
<1> QED BY <1>1, <1>2

(* Whatever the programs, their tables and the moments at which power or   *)
(* the flash fails: the types hold, config_valid vouches for the CRC, and  *)
(* no key is twice in the sector.                                          *)
THEOREM ConfigCorrect == Spec => [](TypeOK /\ ValidIsWhole /\ NoDuplicates)
<1>1. ConfigInv => TypeOK /\ ValidIsWhole /\ NoDuplicates
  BY DEF ConfigInv
<1> QED BY InitInv, StepInv, <1>1, PTL DEF Spec

(* RAM that is changed from the table (config_read_storage) has what a     *)
(* valid sector stores for the key.                                        *)
LEMMA LoadStep ==
  ASSUME ConfigInv, Next, NEW k \in Key, ram'[k] # ram[k], pc' = "run"
  PROVE  \/ UNCHANGED <<flash, config_valid, addr>>
         \/ whole /\ k \in Keys(prog') /\ StoredFor(prog', k) = {ram'[k]}
<1>t. /\ items \in Seq(Entry) /\ whole \in BOOLEAN /\ NoDuplicates
  BY DEF ConfigInv, TypeOK
<1>1. ASSUME NEW p \in Prog, Boot(p)
      PROVE  whole /\ k \in Keys(prog') /\ StoredFor(prog', k) = {ram'[k]}
  <2>1. /\ ReadBack(p, [kk \in Key |-> 0], ram) /\ prog' = p /\ ram \in [Key -> Value]
    BY <1>1 DEF Boot, ConfigInv, AddrInv, TypeOK
  <2>2. /\ [kk \in Key |-> 0] \in [Key -> Nat]
        /\ whole => \A kk \in Keys(p) : [ll \in Key |-> 0][kk] # 0 => Positions(p, kk) # {}
    BY KeysAreKeys
  <2>3. whole /\ k \in Keys(p) /\ StoredFor(p, k) = {ram'[k]}
    BY <1>t, <2>1, <2>2, ReadBackTypes
  <2> QED BY <2>1, <2>3
<1>2. ASSUME NEW q \in Key, NEW v \in Value, Set(q, v)
      PROVE  UNCHANGED <<flash, config_valid, addr>>
  BY <1>2 DEF Set
<1>3. CASE Restore
  <2>1. /\ ReadBack(prog, addr, ram) /\ prog' = prog /\ prog \in Prog
        /\ addr \in [Key -> Nat] /\ ram \in [Key -> Value]
        /\ whole => \A kk \in Keys(prog) : addr[kk] # 0 => Positions(prog, kk) # {}
    BY <1>3 DEF Restore, ConfigInv, AddrInv, TypeOK
  <2>2. whole /\ k \in Keys(prog) /\ StoredFor(prog, k) = {ram'[k]}
    BY <1>t, <2>1, ReadBackTypes
  <2> QED BY <2>1, <2>2
<1>4. ~(\/ CfgState \/ \E c \in BOOLEAN : WriteStart(c)
        \/ Erase \/ WriteForeign \/ ForeignWritten \/ WriteNative \/ WriteCrc
        \/ Fail \/ PowerLoss)
  BY DEF CfgState, WriteStart, Erase, WriteForeign, ForeignWritten, WriteNative,
         WriteCrc, Fail, PowerLoss
<1> QED BY <1>1, <1>2, <1>3, <1>4 DEF Next

(* What config_read_storage puts into a variable is what the last whole    *)
(* save stored under its key.                                              *)
THEOREM LoadCorrect == Spec => LoadsWhatIsStored
<1>1. ConfigInv /\ [Next]_vars =>
        [\A k \in Key : ram'[k] # ram[k] /\ pc' = "run" =>
           \/ UNCHANGED <<flash, config_valid, addr>>
           \/ whole /\ k \in Keys(prog') /\ StoredFor(prog', k) = {ram'[k]}]_vars
  BY LoadStep
<1> QED BY InitInv, StepInv, <1>1, PTL DEF Spec, LoadsWhatIsStored

-----------------------------------------------------------------------------
(* The sector as a table.  While entries are written they are those the    *)
(* table at the end will have: of old the foreign ones up to next, ...     *)
ForeignIn(n) ==
  \A j \in DOMAIN old : j < n /\ old[j].key \notin Keys(prog) =>
    \E i \in DOMAIN items : items[i] = old[j]

(* ... and then the program's own.                                         *)
NativeIn(n) ==
  \A t \in DOMAIN Table[prog] : t < n =>
    \E i \in DOMAIN items : items[i] = NativeEntry(Table[prog][t])

IsOld(e) == \E j \in DOMAIN old : e = old[j] /\ e.key \notin Keys(prog)
IsOwn(e) == \E t \in DOMAIN Table[prog] : e = NativeEntry(Table[prog][t])

SaveInv ==
  /\ pc = "foreign" =>
       next # 0 /\ ForeignIn(next) /\ \A i \in DOMAIN items : IsOld(items[i])
  /\ pc = "native" =>
       /\ \A j \in DOMAIN old : old[j].key \notin Keys(prog) =>
            \E i \in DOMAIN items : items[i] = old[j]
       /\ NativeIn(next)
       /\ \A i \in DOMAIN items : IsOld(items[i]) \/ IsOwn(items[i])

-----------------------------------------------------------------------------
(* A sequence of entries without duplicate keys is a table.                *)
LEMMA AsTableOf ==
  ASSUME NEW s \in Seq(Entry), \A i, j \in DOMAIN s : s[i].key = s[j].key => i = j
  PROVE  /\ AsTable(s) \in Tables
         /\ DOMAIN AsTable(s) = {s[i].key : i \in DOMAIN s}
         /\ \A i \in DOMAIN s : AsTable(s)[s[i].key] = [size |-> s[i].size, val |-> s[i].val]
<1>1. \A i \in DOMAIN s : s[i] \in Entry
  BY ElementOfSeq, LenProperties
<1>2. DOMAIN AsTable(s) = {s[i].key : i \in DOMAIN s}
  BY DEF AsTable
<1>3. ASSUME NEW i \in DOMAIN s
      PROVE  AsTable(s)[s[i].key] = [size |-> s[i].size, val |-> s[i].val]
  <2> DEFINE c == CHOOSE h \in DOMAIN s : s[h].key = s[i].key
  <2>1. c = i
    OBVIOUS
  <2>2. s[i].key \in {s[h].key : h \in DOMAIN s}
    OBVIOUS
  <2>3. AsTable(s)[s[i].key] = [size |-> s[c].size, val |-> s[c].val]
    <3> DEFINE f == [k \in {s[h].key : h \in DOMAIN s} |->
                       LET h == CHOOSE h \in DOMAIN s : s[h].key = k
                       IN  [size |-> s[h].size, val |-> s[h].val]]
    <3>1. AsTable(s) = f
      BY DEF AsTable
    <3>2. f[s[i].key] = [size |-> s[c].size, val |-> s[c].val]
      BY <2>2
    <3> HIDE DEF f, c
    <3> QED BY <3>1, <3>2
  <2> HIDE DEF c
  <2> QED BY <2>1, <2>3
<1>4. {s[i].key : i \in DOMAIN s} \in SUBSET Key
  BY <1>1 DEF Entry
<1>5. AsTable(s) \in [{s[i].key : i \in DOMAIN s} -> [size: Width, val: Value]]
  <2>1. ASSUME NEW k \in {s[i].key : i \in DOMAIN s}
        PROVE  AsTable(s)[k] \in [size: Width, val: Value]
    <3>1. PICK i \in DOMAIN s : k = s[i].key
      OBVIOUS
    <3>2. s[i].size \in Width /\ s[i].val \in Value
      BY <1>1 DEF Entry
    <3>3. AsTable(s)[k] = [size |-> s[i].size, val |-> s[i].val]
      BY <1>3, <3>1
    <3> QED BY <3>2, <3>3
  <2>2. AsTable(s) = [k \in DOMAIN AsTable(s) |-> AsTable(s)[k]]
    BY DEF AsTable
  <2> QED BY <1>2, <2>1, <2>2
<1> QED BY <1>2, <1>3, <1>4, <1>5 DEF Tables

(* What a program saves is a table.                                        *)
LEMMA OwnTableOf ==
  ASSUME NEW p \in Prog, NEW vals \in [Key -> Value]
  PROVE  /\ OwnTable(p, vals) \in Tables /\ OwnTable(p, vals) \in OwnTables
         /\ DOMAIN OwnTable(p, vals) = Keys(p)
         /\ \A t \in DOMAIN Table[p] : OwnTable(p, vals)[Table[p][t].key] =
              [size |-> Table[p][t].size, val |-> vals[Table[p][t].key]]
<1> DEFINE s == [t \in DOMAIN Table[p] |->
                   [key |-> Table[p][t].key, size |-> Table[p][t].size,
                    val |-> vals[Table[p][t].key]]]
<1>1. \A t \in DOMAIN Table[p] : /\ s[t] \in Entry /\ s[t].key = Table[p][t].key
                                 /\ s[t].size = Table[p][t].size
                                 /\ s[t].val = vals[Table[p][t].key]
  BY TableTypes DEF Entry
<1>2. DOMAIN s = DOMAIN Table[p] /\ OwnTable(p, vals) = AsTable(s)
  BY DEF OwnTable
<1>3. \E n \in Nat : DOMAIN Table[p] = 1 .. n
  BY TableAssumption, LenProperties
<1>4. s \in [DOMAIN Table[p] -> Entry]
  BY <1>1
<1> HIDE DEF s
<1>5. s \in Seq(Entry)
  BY <1>3, <1>4, SeqDef, Zenon
<1>6. \A i, j \in DOMAIN s : s[i].key = s[j].key => i = j
  BY <1>1, <1>2, TableAssumption
<1>7. /\ AsTable(s) \in Tables /\ DOMAIN AsTable(s) = {s[i].key : i \in DOMAIN s}
      /\ \A i \in DOMAIN s : AsTable(s)[s[i].key] = [size |-> s[i].size, val |-> s[i].val]
  BY <1>5, <1>6, AsTableOf
<1>8. {s[i].key : i \in DOMAIN s} = Keys(p)
  BY <1>1, <1>2 DEF Keys
<1>9. OwnTable(p, vals) \in OwnTables
  BY DEF OwnTables
<1> QED BY <1>1, <1>2, <1>7, <1>8, <1>9

(* Two tables merged are one.                                              *)
LEMMA ReplacedOf ==
  ASSUME NEW tab \in Tables, NEW own \in Tables
  PROVE  Replaced(tab, own) \in Tables
<1>1. PICK K \in SUBSET Key : tab \in [K -> [size: Width, val: Value]]
  BY DEF Tables
<1>2. PICK L \in SUBSET Key : own \in [L -> [size: Width, val: Value]]
  BY DEF Tables
<1>3. Replaced(tab, own) \in [L \union K -> [size: Width, val: Value]]
  BY <1>1, <1>2 DEF Replaced
<1> QED BY <1>3 DEF Tables

(* No old entries: the save leaves the own ones.                           *)
LEMMA ReplacedEmpty ==
  ASSUME NEW own \in Tables
  PROVE  AsTable(<<>>) \in Tables /\ Replaced(AsTable(<<>>), own) = own
<1>1. <<>> \in Seq(Entry) /\ DOMAIN <<>> = {}
  BY EmptySeq
<1>2. AsTable(<<>>) \in Tables /\ DOMAIN AsTable(<<>>) = {}
  BY <1>1, AsTableOf
<1>3. own = [k \in DOMAIN own |-> own[k]]
  BY DEF Tables
<1>4. Replaced(AsTable(<<>>), own) = [k \in DOMAIN own |-> own[k]]
  BY <1>2 DEF Replaced
<1> QED BY <1>2, <1>3, <1>4

(* When all entries are written, the sector is the table that was wanted.  *)
LEMMA WrittenTable ==
  ASSUME ConfigInv, SaveInv, pc = "native", NativeWritten
  PROVE  AsTable(items) = Replaced(AsTable(old), OwnTable(prog, ram))
<1> DEFINE own == OwnTable(prog, ram)
           tab == AsTable(old)
           new == AsTable(items)
<1>1. /\ prog \in Prog /\ ram \in [Key -> Value] /\ items \in Seq(Entry) /\ old \in Seq(Entry)
      /\ \A i, j \in DOMAIN items : items[i].key = items[j].key => i = j
      /\ \A i, j \in DOMAIN old : old[i].key = old[j].key => i = j
  BY DEF ConfigInv, TypeOK, NoDuplicates, WriteInv
<1>2. /\ DOMAIN own = Keys(prog)
      /\ \A t \in DOMAIN Table[prog] : own[Table[prog][t].key] =
           [size |-> Table[prog][t].size, val |-> ram[Table[prog][t].key]]
  BY <1>1, OwnTableOf
<1>3. /\ DOMAIN tab = {old[i].key : i \in DOMAIN old}
      /\ \A i \in DOMAIN old : tab[old[i].key] = [size |-> old[i].size, val |-> old[i].val]
  BY <1>1, AsTableOf
<1>4. /\ DOMAIN new = {items[i].key : i \in DOMAIN items}
      /\ \A i \in DOMAIN items : new[items[i].key] = [size |-> items[i].size, val |-> items[i].val]
  BY <1>1, AsTableOf
<1>5. new = [k \in DOMAIN new |-> new[k]]
  BY DEF AsTable
<1> HIDE DEF own, tab, new
<1>6. /\ \A j \in DOMAIN old : old[j].key \notin Keys(prog) =>
           \E i \in DOMAIN items : items[i] = old[j]
      /\ \A t \in DOMAIN Table[prog] : \E i \in DOMAIN items : items[i] = NativeEntry(Table[prog][t])
      /\ \A i \in DOMAIN items : IsOld(items[i]) \/ IsOwn(items[i])
  <2>1. \A t \in DOMAIN Table[prog] : t < next
    <3>1. /\ DOMAIN Table[prog] = 1 .. Len(Table[prog]) /\ Len(Table[prog]) \in Nat
      BY <1>1, TableAssumption, LenProperties
    <3>2. next # 0 /\ next \in Nat /\ next \notin DOMAIN Table[prog]
      BY DEF ConfigInv, TypeOK, AddrInv, NativeWritten
    <3> QED BY <3>1, <3>2
  <2> QED BY <2>1 DEF SaveInv, NativeIn
<1>7. \A t \in DOMAIN Table[prog] :
        /\ NativeEntry(Table[prog][t]).key = Table[prog][t].key
        /\ NativeEntry(Table[prog][t]).size = Table[prog][t].size
        /\ NativeEntry(Table[prog][t]).val = ram[Table[prog][t].key]
        /\ Table[prog][t].key \in Keys(prog)
  BY <1>1, TableTypes DEF NativeEntry
<1>8. DOMAIN new = DOMAIN own \union DOMAIN tab
  <2>1. ASSUME NEW k \in DOMAIN new PROVE k \in DOMAIN own \union DOMAIN tab
    <3>1. PICK i \in DOMAIN items : items[i].key = k
      BY <1>4
    <3> QED BY <1>2, <1>3, <1>6, <1>7, <3>1 DEF IsOld, IsOwn
  <2>2. ASSUME NEW k \in DOMAIN own PROVE k \in DOMAIN new
    <3>1. PICK t \in DOMAIN Table[prog] : Table[prog][t].key = k
      BY <1>2 DEF Keys
    <3>2. PICK i \in DOMAIN items : items[i] = NativeEntry(Table[prog][t])
      BY <1>6
    <3> QED BY <1>4, <1>7, <3>1, <3>2
  <2>3. ASSUME NEW k \in DOMAIN tab, k \notin Keys(prog) PROVE k \in DOMAIN new
    <3>1. PICK j \in DOMAIN old : old[j].key = k
      BY <1>3
    <3>2. PICK i \in DOMAIN items : items[i] = old[j]
      BY <1>6, <2>3, <3>1
    <3> QED BY <1>4, <3>1, <3>2
  <2> QED BY <1>2, <2>1, <2>2, <2>3
<1>9. ASSUME NEW k \in DOMAIN new
      PROVE  new[k] = IF k \in DOMAIN own THEN own[k] ELSE tab[k]
  <2>1. PICK i \in DOMAIN items : items[i].key = k
    BY <1>4
  <2>2. new[k] = [size |-> items[i].size, val |-> items[i].val]
    BY <1>4, <2>1
  <2>3. CASE IsOld(items[i])
    <3>1. PICK j \in DOMAIN old : items[i] = old[j] /\ k \notin Keys(prog)
      BY <2>1, <2>3 DEF IsOld
    <3> QED BY <1>2, <1>3, <2>1, <2>2, <3>1
  <2>4. CASE IsOwn(items[i])
    <3>1. PICK t \in DOMAIN Table[prog] : items[i] = NativeEntry(Table[prog][t])
      BY <2>4 DEF IsOwn
    <3>2. k = Table[prog][t].key /\ k \in DOMAIN own
      BY <1>2, <1>7, <2>1, <3>1
    <3>3. own[k] = [size |-> items[i].size, val |-> items[i].val]
      BY <1>2, <1>7, <3>1, <3>2
    <3> QED BY <2>2, <3>2, <3>3
  <2> QED BY <1>6, <2>3, <2>4
<1>10. new = [k \in DOMAIN own \union DOMAIN tab |-> IF k \in DOMAIN own THEN own[k] ELSE tab[k]]
  BY <1>5, <1>8, <1>9
<1> QED BY <1>10 DEF Replaced, own, tab, new

(* The two loops of config_write_storage keep it.                          *)
LEMMA SaveStep ==
  ASSUME ConfigInv, SaveInv, [Next]_vars
  PROVE  SaveInv'
<1>t. /\ items \in Seq(Entry) /\ old \in Seq(Entry) /\ next \in Nat
      /\ DOMAIN items = 1 .. Len(items) /\ Len(items) \in Nat
      /\ DOMAIN old = 1 .. Len(old) /\ Len(old) \in Nat
  BY LenProperties DEF ConfigInv, TypeOK
<1>p. pc # "off" => prog \in Prog /\ DOMAIN Table[prog] = 1 .. Len(Table[prog])
                   /\ Len(Table[prog]) \in Nat
  BY TableAssumption, LenProperties DEF ConfigInv, TypeOK
<1>1. CASE pc' \notin {"foreign", "native"}
  BY <1>1 DEF SaveInv
<1>2. CASE Erase
  <2>1. /\ pc' = "foreign" /\ next' = 1 /\ DOMAIN items' = {} /\ UNCHANGED <<prog, old>>
    BY <1>2, EmptySeq DEF Erase
  <2>2. \A j \in DOMAIN old : ~(j < 1)
    BY <1>t
  <2> QED BY <2>1, <2>2 DEF SaveInv, ForeignIn
<1>3. CASE WriteForeign
  <2> DEFINE e == old[next]
  <2>1. /\ pc = "foreign" /\ pc' = "foreign" /\ next \in DOMAIN old /\ next' = next + 1
        /\ items' = IF e.key \notin Keys(prog) THEN Append(items, e) ELSE items
        /\ UNCHANGED <<prog, old>>
    BY <1>3 DEF WriteForeign, IsForeign
  <2>2. e \in Entry /\ e = old[next]
    BY <1>t, <2>1, ElementOfSeq
  <2> HIDE DEF e
  <2>3. /\ \A i \in DOMAIN items : i \in DOMAIN items' /\ items'[i] = items[i]
        /\ \A i \in DOMAIN items' : i \in DOMAIN items \/ (items'[i] = e /\ e.key \notin Keys(prog))
        /\ e.key \notin Keys(prog) => \E i \in DOMAIN items' : items'[i] = e
    <3>1. CASE e.key \in Keys(prog)
      <4>1. items' = items
        BY <2>1, <3>1
      <4>2. /\ \A i \in DOMAIN items : i \in DOMAIN items' /\ items'[i] = items[i]
            /\ \A i \in DOMAIN items' : i \in DOMAIN items
        BY <4>1
      <4> QED BY <3>1, <4>2
    <3>2. CASE e.key \notin Keys(prog)
      <4>1. /\ items' = Append(items, e) /\ DOMAIN items' = 1 .. Len(items) + 1
            /\ \A i \in DOMAIN items : items'[i] = items[i]
            /\ items'[Len(items) + 1] = e
        BY <1>t, <2>1, <2>2, <3>2, AppendProperties
      <4>2. Len(items) + 1 \in DOMAIN items'
            /\ \A i \in DOMAIN items' : i \in DOMAIN items \/ i = Len(items) + 1
        BY <1>t, <4>1
      <4>3. \A i \in DOMAIN items : i \in DOMAIN items'
        BY <1>t, <4>1
      <4> QED BY <3>2, <4>1, <4>2, <4>3
    <3> QED BY <3>1, <3>2
  <2>4. /\ next # 0 /\ ForeignIn(next) /\ \A i \in DOMAIN items : IsOld(items[i])
    BY <2>1 DEF SaveInv
  <2>5. next' # 0
    BY <1>t, <2>1
  <2>6. ForeignIn(next)'
    <3>1. \A j \in DOMAIN old : j < next' => j < next \/ j = next
      BY <1>t, <2>1
    <3>2. ASSUME NEW j \in DOMAIN old, j < next', old[j].key \notin Keys(prog)
          PROVE  \E i \in DOMAIN items' : items'[i] = old[j]
      <4>1. CASE j < next
        BY <2>3, <2>4, <3>2, <4>1 DEF ForeignIn
      <4>2. CASE j = next
        BY <2>2, <2>3, <3>2, <4>2
      <4> QED BY <3>1, <3>2, <4>1, <4>2
    <3> QED BY <2>1, <3>2 DEF ForeignIn
  <2>7. \A i \in DOMAIN items' : IsOld(items'[i])
    BY <2>1, <2>2, <2>3, <2>4 DEF IsOld
  <2>8. \A i \in DOMAIN items' : IsOld(items[i])'
    BY <2>1, <2>7 DEF IsOld
  <2> QED BY <2>1, <2>5, <2>6, <2>8 DEF SaveInv
<1>4. CASE ForeignWritten
  <2>1. /\ pc = "foreign" /\ pc' = "native" /\ next \notin DOMAIN old /\ next' = 1
        /\ UNCHANGED <<items, prog, old, ram>>
    BY <1>4 DEF ForeignWritten, flash
  <2>2. /\ next # 0 /\ ForeignIn(next) /\ \A i \in DOMAIN items : IsOld(items[i])
    BY <2>1 DEF SaveInv
  <2>3. \A j \in DOMAIN old : j < next
    BY <1>t, <2>1, <2>2
  <2>4. \A j \in DOMAIN Table[prog] : ~(j < 1)
    BY <1>p, <2>1
  <2>5. NativeIn(next)'
    BY <2>1, <2>4 DEF NativeIn
  <2>6. \A i \in DOMAIN items' : IsOld(items[i])'
    BY <2>1, <2>2 DEF IsOld
  <2> QED BY <2>1, <2>2, <2>3, <2>5, <2>6 DEF SaveInv, ForeignIn
<1>5. CASE WriteNative
  <2> DEFINE e == NativeEntry(Table[prog][next])
  <2>1. /\ pc = "native" /\ pc' = "native" /\ next \in DOMAIN Table[prog] /\ next' = next + 1
        /\ items' = Append(items, e) /\ UNCHANGED <<prog, old, ram>>
    BY <1>5 DEF WriteNative
  <2>2. e \in Entry
    BY <1>p, <2>1, TableTypes DEF NativeEntry, Entry, ConfigInv, TypeOK
  <2>e. \A t \in DOMAIN Table[prog] : NativeEntry(Table[prog][t])' = NativeEntry(Table[prog][t])
    BY <2>1 DEF NativeEntry
  <2>i. IsOwn(e)
    BY <2>1 DEF IsOwn
  <2> HIDE DEF e
  <2>3. /\ DOMAIN items' = 1 .. Len(items) + 1 /\ items'[Len(items) + 1] = e
        /\ \A i \in DOMAIN items : items'[i] = items[i]
    BY <1>t, <2>1, <2>2, AppendProperties
  <2>4. /\ \A i \in DOMAIN items' : i \in DOMAIN items \/ i = Len(items) + 1
        /\ Len(items) + 1 \in DOMAIN items' /\ \A i \in DOMAIN items : i \in DOMAIN items'
    BY <1>t, <2>3
  <2>5. /\ \A j \in DOMAIN old : old[j].key \notin Keys(prog) =>
             \E i \in DOMAIN items : items[i] = old[j]
        /\ NativeIn(next)
        /\ \A i \in DOMAIN items : IsOld(items[i]) \/ IsOwn(items[i])
    BY <2>1 DEF SaveInv
  <2>6. \A j \in DOMAIN old : old[j].key \notin Keys(prog) =>
          \E i \in DOMAIN items' : items'[i] = old[j]
    BY <2>3, <2>4, <2>5
  <2>7. NativeIn(next)'
    <3>1. \A t \in DOMAIN Table[prog] : t < next' => t < next \/ t = next
      BY <1>t, <1>p, <2>1
    <3>2. \A t \in DOMAIN Table[prog] : t < next' =>
            \E i \in DOMAIN items' : items'[i] = NativeEntry(Table[prog][t])
      BY <2>3, <2>4, <2>5, <3>1 DEF NativeIn, e
    <3> QED BY <2>1, <2>e, <3>2 DEF NativeIn
  <2>8. \A i \in DOMAIN items' : IsOld(items'[i]) \/ IsOwn(items'[i])
    BY <2>3, <2>4, <2>5, <2>i
  <2>9. \A i \in DOMAIN items' : IsOld(items[i])' \/ IsOwn(items[i])'
    BY <2>1, <2>8, <2>e DEF IsOld, IsOwn
  <2> QED BY <2>1, <2>6, <2>7, <2>9 DEF SaveInv
<1>6. CASE UNCHANGED vars
  <2>1. UNCHANGED <<items, pc, prog, ram, old, next>>
    BY <1>6 DEF vars, flash, save
  <2> QED BY <2>1 DEF SaveInv, ForeignIn, NativeIn, IsOld, IsOwn, NativeEntry
<1>7. CASE \/ \E p \in Prog : Boot(p)
           \/ \E k \in Key, v \in Value : Set(k, v)
           \/ CfgState \/ Restore \/ \E c \in BOOLEAN : WriteStart(c)
           \/ WriteCrc \/ Fail \/ PowerLoss
  <2>1. pc' \in {"off", "run", "erase"}
    BY <1>7 DEF Boot, Set, CfgState, Restore, WriteStart, WriteCrc, Fail, PowerLoss
  <2> QED BY <2>1, <1>1
<1> QED BY <1>2, <1>3, <1>4, <1>5, <1>6, <1>7 DEF Next

-----------------------------------------------------------------------------
(* The table a save will leave is one, and so is what a whole sector       *)
(* holds: neither is taken for the absence of a table.                     *)
LEMMA GoalIsTable ==
  ASSUME ConfigInv
  PROVE  /\ whole => StoredTable # Lost
         /\ ~whole => StoredTable = Lost
         /\ pc \in {"erase", "foreign", "native"} => GoalTable # Quiet
         /\ pc \notin {"erase", "foreign", "native"} => GoalTable = Quiet
<1>1. AsTable(items) \in Tables /\ AsTable(old) \in Tables
  BY AsTableOf DEF ConfigInv, TypeOK, NoDuplicates, WriteInv
<1>2. ASSUME pc \in {"erase", "foreign", "native"} PROVE GoalTable # Quiet
  <2>1. prog \in Prog /\ ram \in [Key -> Value]
    BY <1>2 DEF ConfigInv, TypeOK
  <2>2. Replaced(AsTable(old), OwnTable(prog, ram)) \in Tables
    BY <1>1, <2>1, OwnTableOf, ReplacedOf
  <2> QED BY <1>2, <2>2, NoTableAssumption DEF GoalTable
<1> QED BY <1>1, <1>2, NoTableAssumption DEF StoredTable, GoalTable

(* The two ways to write a merge.                                          *)
LEMMA MergeReplaces ==
  ASSUME NEW tab, NEW own PROVE SC!Merge(tab, own) = Replaced(tab, own)
<1>1. DOMAIN tab \union DOMAIN own = DOMAIN own \union DOMAIN tab
  OBVIOUS
<1> QED BY <1>1 DEF SC!Merge, Replaced

(* What the sector and the save look like after a step that leaves them.   *)
LEMMA TablesKept ==
  /\ UNCHANGED flash => StoredTable' = StoredTable
  /\ UNCHANGED <<pc, prog, ram, old>> => GoalTable' = GoalTable
<1>1. ASSUME UNCHANGED flash PROVE StoredTable' = StoredTable
  BY <1>1 DEF flash, StoredTable, AsTable
<1>2. ASSUME UNCHANGED <<pc, prog, ram, old>> PROVE GoalTable' = GoalTable
  BY <1>2 DEF GoalTable, Replaced, AsTable, OwnTable
<1> QED BY <1>1, <1>2

(* The table a save under way will leave, read in the next state.          *)
LEMMA GoalAfter ==
  pc' \in {"erase", "foreign", "native"} =>
    GoalTable' = Replaced(AsTable(old'), OwnTable(prog', ram'))
<1> DEFINE f == Replaced(AsTable(old), OwnTable(prog, ram))
           g == Replaced(AsTable(old'), OwnTable(prog', ram'))
<1>1. f' = g
  BY DEF Replaced, AsTable, OwnTable
<1>2. GoalTable = IF pc \in {"erase", "foreign", "native"} THEN f ELSE Quiet
  BY DEF GoalTable
<1> HIDE DEF f
<1>3. GoalTable' = IF pc' \in {"erase", "foreign", "native"} THEN f' ELSE Quiet
  BY DEF GoalTable, f
<1> QED BY <1>1, <1>3

(* The start of a save is the start of a replacement of the table.         *)
LEMMA BeginStep ==
  ASSUME ConfigInv, NEW c \in BOOLEAN, WriteStart(c)
  PROVE  \E own \in OwnTables : SC!Begin(own)
<1> DEFINE own == OwnTable(prog, ram)
<1>1. /\ pc = "run" /\ pc' = "erase" /\ config_valid' = FALSE
      /\ UNCHANGED flash /\ prog' = prog /\ ram' = ram
      /\ old' = IF config_valid THEN items ELSE <<>>
  BY DEF WriteStart
<1>2. prog \in Prog /\ ram \in [Key -> Value] /\ (config_valid => whole)
  BY <1>1 DEF ConfigInv, TypeOK, ValidIsWhole
<1>3. own \in Tables /\ own \in OwnTables
  BY <1>2, OwnTableOf
<1>4. GoalTable' = Replaced(AsTable(old'), own)
  BY <1>1, GoalAfter
<1>5. GoalTable = Quiet /\ StoredTable' = StoredTable
  BY <1>1, TablesKept DEF GoalTable
<1> HIDE DEF own
<1>6. GoalTable' = IF config_valid THEN SC!Merge(StoredTable, own) ELSE own
  <2>1. CASE config_valid
    BY <1>1, <1>2, <1>4, <2>1, MergeReplaces DEF StoredTable
  <2>2. CASE ~config_valid
    BY <1>1, <1>3, <1>4, <2>2, ReplacedEmpty
  <2> QED BY <2>1, <2>2
<1>7. SC!Begin(own)
  BY <1>1, <1>5, <1>6 DEF SC!Begin
<1> QED BY <1>3, <1>7

(* The CRC that ends a save puts the new table in place at once.           *)
LEMMA CommitStep ==
  ASSUME ConfigInv, SaveInv, WriteCrc PROVE SC!Commit
<1>1. /\ pc = "native" /\ NativeWritten /\ whole' = TRUE /\ pc' = "run"
      /\ config_valid' = TRUE /\ items' = items
  BY DEF WriteCrc
<1>2. ~whole
  BY <1>1 DEF ConfigInv, WriteInv
<1>3. GoalTable # Quiet /\ StoredTable = Lost
  BY <1>1, <1>2, GoalIsTable
<1>4. GoalTable = AsTable(items)
  BY <1>1, WrittenTable DEF GoalTable
<1>5. StoredTable' = AsTable(items)
  BY <1>1 DEF StoredTable, AsTable
<1>6. GoalTable' = Quiet
  BY <1>1 DEF GoalTable
<1> QED BY <1>1, <1>3, <1>4, <1>5, <1>6 DEF SC!Commit

(* A failure or a loss of power: the save, if there was one, is given up.  *)
LEMMA BreakStep ==
  ASSUME ConfigInv, Fail \/ PowerLoss PROVE SC!GiveUp \/ SC!Restart
<1>1. /\ pc' \in {"run", "off"} /\ config_valid' = FALSE /\ FlashBroken
      /\ pc \in {"run", "erase", "foreign", "native"}
  BY DEF Fail, PowerLoss, FailedValid, ConfigInv, TypeOK
<1>2. GoalTable' = Quiet
  BY <1>1 DEF GoalTable
<1>3. CASE pc = "run"
  <2>1. UNCHANGED flash /\ GoalTable = Quiet
    BY <1>1, <1>3 DEF FlashBroken, GoalTable
  <2> QED BY <1>1, <1>2, <2>1, TablesKept DEF SC!Restart
<1>4. CASE pc \in {"erase", "foreign", "native"}
  <2>1. GoalTable # Quiet
    BY <1>4, GoalIsTable
  <2>2. StoredTable' = StoredTable \/ StoredTable' = Lost
    <3>1. CASE UNCHANGED flash
      BY <3>1, TablesKept
    <3>2. CASE whole' = FALSE
      BY <3>2 DEF StoredTable
    <3> QED BY <1>1, <3>1, <3>2 DEF FlashBroken
  <2> QED BY <1>1, <1>2, <2>1, <2>2 DEF SC!GiveUp
<1> QED BY <1>1, <1>3, <1>4

(* Every step of the storage is one of the table, or none.                 *)
LEMMA TableStep ==
  ASSUME ConfigInv, SaveInv, [Next]_vars
  PROVE  SC!Next \/ UNCHANGED <<StoredTable, config_valid, GoalTable>>
<1>1. CASE (\E p \in Prog : Boot(p)) \/ CfgState \/ Restore
  <2>1. /\ pc \in {"off", "run"} /\ pc' = "run" /\ config_valid' = whole /\ UNCHANGED flash
    BY <1>1 DEF Boot, CfgState, Restore, ReadBack, Validate
  <2>2. GoalTable = Quiet /\ GoalTable' = Quiet
    BY <2>1 DEF GoalTable
  <2>3. StoredTable' = StoredTable /\ whole \in BOOLEAN
    BY <2>1, TablesKept DEF ConfigInv, TypeOK
  <2>4. whole = (StoredTable # Lost)
    BY <2>3, GoalIsTable
  <2> QED BY <2>1, <2>2, <2>3, <2>4 DEF SC!Next, SC!Recheck
<1>2. CASE \E k \in Key, v \in Value : Set(k, v)
  <2>1. pc = "run" /\ pc' = "run" /\ config_valid' = config_valid /\ UNCHANGED flash
    BY <1>2 DEF Set
  <2> QED BY <2>1, TablesKept DEF GoalTable
<1>3. CASE \E c \in BOOLEAN : WriteStart(c)
  BY <1>3, BeginStep DEF SC!Next
<1>4. CASE Erase
  <2>1. /\ pc = "erase" /\ pc' = "foreign" /\ whole' = FALSE
        /\ UNCHANGED <<prog, config_valid, ram, old>>
    BY <1>4 DEF Erase
  <2>2. GoalTable' = GoalTable
    BY <2>1, GoalAfter DEF GoalTable
  <2>3. StoredTable' = Lost
    BY <2>1 DEF StoredTable
  <2>4. GoalTable # Quiet
    BY <2>1, GoalIsTable
  <2> QED BY <2>1, <2>2, <2>3, <2>4 DEF SC!Next, SC!Wipe
<1>5. CASE WriteForeign \/ ForeignWritten \/ WriteNative
  <2>1. /\ pc \in {"foreign", "native"} /\ pc' \in {"foreign", "native"} /\ whole' = whole
        /\ UNCHANGED <<prog, config_valid, ram, old>>
    BY <1>5 DEF WriteForeign, ForeignWritten, WriteNative, flash
  <2>2. ~whole
    BY <2>1 DEF ConfigInv, WriteInv
  <2>3. GoalTable' = GoalTable
    BY <2>1, GoalAfter DEF GoalTable
  <2>4. StoredTable = Lost /\ StoredTable' = Lost
    BY <2>1, <2>2 DEF StoredTable
  <2> QED BY <2>1, <2>3, <2>4
<1>6. CASE WriteCrc
  BY <1>6, CommitStep DEF SC!Next
<1>7. CASE Fail \/ PowerLoss
  BY <1>7, BreakStep DEF SC!Next
<1>8. CASE UNCHANGED vars
  BY <1>8, TablesKept DEF vars, save
<1> QED BY <1>1, <1>2, <1>3, <1>4, <1>5, <1>6, <1>7, <1>8 DEF Next

(* A save replaces the entries of its own program and keeps those of the   *)
(* others, and one that is broken off leaves the old table or none, for    *)
(* all programs, tables and contents: config_write_storage as a table that *)
(* is replaced as a whole.                                                 *)
THEOREM SavesCorrect == Spec => SavesAsTable
<1>1. Init => SaveInv
  BY DEF Init, SaveInv
<1>2. Init => SC!Init
  BY DEF Init, SC!Init, StoredTable, GoalTable
<1>3. ConfigInv /\ SaveInv /\ [Next]_vars => [SC!Next]_(SC!vars)
  BY TableStep DEF SC!vars
<1>4. ConfigInv /\ SaveInv /\ [Next]_vars => SaveInv'
  BY SaveStep
<1> QED BY InitInv, StepInv, <1>1, <1>2, <1>3, <1>4, PTL DEF Spec, SavesAsTable, SC!Spec
=============================================================================
