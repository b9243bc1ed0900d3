--------------------------- MODULE ConfigStorage ---------------------------
(***************************************************************************)
(* The configuration sector, shared by the programs of the board.  Each    *)
(* program has a table of the entries it knows (g_device_config); a save   *)
(* erases the sector and writes the entries of other programs first, then  *)
(* its own, then the CRC.  Power may fail and the flash may refuse at      *)
(* every step of it.                                                       *)
(*                                                                         *)
(* Bytes are abstracted to entries: the sector is the sequence of entries  *)
(* written since the last erase, and whether the CRC that ends them is     *)
(* there.  A CRC never matches by chance.                                  *)
(***************************************************************************)
EXTENDS Integers, Sequences

CONSTANTS
  Key, Width, Value,  (* names, sizes and contents of entries               *)
  Prog,               (* the programs that may be on the board              *)
  Table,              (* g_device_config of each: keys and sizes, in order  *)
  Setters,            (* the programs with commands that change a setting   *)
  Default,            (* the contents the variables are initialised with    *)
  Garbage,            (* bytes read at an address where no such entry is    *)
  NoProg,
  Lost, Quiet         (* of SavedConfig: no table; no save under way        *)

Entry == [key: Key, size: Width, val: Value]

(* Every table fits the sector together with the others, and its keys and  *)
(* sizes pass the checks of config_write_storage: they are constants.      *)
ASSUME TableAssumption ==
  /\ Table \in [Prog -> Seq([key: Key, size: Width])]
  /\ \A p \in Prog : \A i, j \in DOMAIN Table[p] :
       Table[p][i].key = Table[p][j].key => i = j
ASSUME ValueAssumption ==
  /\ Default \in Value /\ Garbage \notin Value
  /\ NoProg \notin Prog /\ Setters \subseteq Prog

(* The tables a sector can hold; Lost and Quiet are none of them.          *)
Tables == UNION {[K -> [size: Width, val: Value]] : K \in SUBSET Key}
ASSUME NoTableAssumption == Lost \notin Tables /\ Quiet \notin Tables

VARIABLES
  items, whole,  (* the sector: its entries, and a CRC that matches         *)
  pc, prog,      (* where the control is; the program that runs             *)
  config_valid,  (* config_valid                                            *)
  addr,          (* data_abs_address, as the position of an entry, or 0     *)
  ram,           (* the variables the table points to                       *)
  old, next,     (* a save: buf_old_data, and the next entry of it, or of   *)
                 (* the program's table, to be written                      *)
  recheck        (* a save: it is the console's, which validates afterwards *)

flash == <<items, whole>>
save  == <<old, next, recheck>>
vars  == <<flash, pc, prog, config_valid, addr, ram, save>>

Keys(p) == {Table[p][i].key : i \in DOMAIN Table[p]}
Knows(p, k, n) == \E i \in DOMAIN Table[p] : Table[p][i] = [key |-> k, size |-> n]

-----------------------------------------------------------------------------
(* The entries of the sector that find_entry takes for the entry k of p.   *)
Positions(p, k) ==
  {i \in DOMAIN items : items[i].key = k /\ Knows(p, k, items[i].size)}

(* config_validate: the addresses of the entries found (the last one of a  *)
(* key counts), on top of those an earlier call has left.                  *)
Found(p, at) ==
  [k \in Key |->
     IF Positions(p, k) = {} THEN at[k]
     ELSE CHOOSE i \in Positions(p, k) : \A j \in Positions(p, k) : j <= i]

(* config_read_storage: the bytes at each address, whatever they are now.  *)
Loaded(p, at, vals) ==
  [k \in Key |->
     IF k \notin Keys(p) \/ at[k] = 0 THEN vals[k]
     ELSE IF at[k] \in DOMAIN items /\ items[at[k]].key = k
               /\ Knows(p, k, items[at[k]].size)
          THEN items[at[k]].val ELSE Garbage]

(* Mutant: the values are copied before the addresses are looked up.       *)
ReadBack_Stale(p, at, vals) ==
  /\ config_valid' = whole
  /\ IF whole THEN addr' = Found(p, at) /\ ram' = Loaded(p, at, vals)
              ELSE addr' = at /\ ram' = vals
(* config_validate, and config_read_storage if it answers CONFIG_STS_OK.   *)
ReadBack(p, at, vals) ==
  /\ config_valid' = whole
  /\ IF whole THEN addr' = Found(p, at) /\ ram' = Loaded(p, Found(p, at), vals)
              ELSE addr' = at /\ ram' = vals

(* config_validate alone.                                                  *)
Validate ==
  /\ config_valid' = whole
  /\ addr' = IF whole THEN Found(prog, addr) ELSE addr

-----------------------------------------------------------------------------
Init ==
  /\ items = <<>> /\ whole = FALSE
  /\ pc = "off" /\ prog = NoProg /\ config_valid = FALSE
  /\ addr = [k \in Key |-> 0] /\ ram = [k \in Key |-> Default]
  /\ old = <<>> /\ next = 0 /\ recheck = FALSE

(* Power-up of program p, up to its main loop.                             *)
Boot(p) ==
  /\ pc = "off" /\ pc' = "run" /\ prog' = p
  /\ ReadBack(p, [k \in Key |-> 0], [k \in Key |-> Default])
  /\ UNCHANGED <<flash, save>>

(* A console command or an OD write changes a setting.                     *)
Set(k, v) ==
  /\ pc = "run" /\ prog \in Setters /\ k \in Keys(prog)
  /\ ram' = [ram EXCEPT ![k] = v]
  /\ UNCHANGED <<flash, pc, prog, config_valid, addr, save>>

(* Console command cfgstate.                                               *)
CfgState ==
  /\ pc = "run" /\ Validate
  /\ UNCHANGED <<flash, pc, prog, ram, save>>

(* Console command read, or the OD entry 1011h: only the application.      *)
Restore ==
  /\ pc = "run" /\ prog \in Setters /\ ReadBack(prog, addr, ram)
  /\ UNCHANGED <<flash, pc, prog, save>>

(* config_write_storage up to the first flash access: the old entries are *)
(* taken over only if they are known to be valid.  c: it is called by the  *)
(* console; otherwise by the LSS slave or the OD entry 1010h.              *)
WriteStart(c) ==
  /\ pc = "run" /\ (c \/ prog \in Setters)
  /\ old' = IF config_valid THEN items ELSE <<>>
  /\ recheck' = c /\ config_valid' = FALSE /\ pc' = "erase"
  /\ UNCHANGED <<flash, prog, addr, ram, next>>

Erase ==
  /\ pc = "erase" /\ pc' = "foreign" /\ next' = 1
  /\ items' = <<>> /\ whole' = FALSE
  /\ UNCHANGED <<prog, config_valid, addr, ram, old, recheck>>

(* Mutant: every old entry is written again.                               *)
IsForeign_Any(e) == TRUE
(* Mutant: none is.                                                        *)
IsForeign_None(e) == FALSE
IsForeign(e) == e.key \notin Keys(prog)

(* The first loop of the second branch: the entries of other programs.     *)
WriteForeign ==
  /\ pc = "foreign" /\ next \in DOMAIN old
  /\ items' = IF IsForeign(old[next]) THEN Append(items, old[next]) ELSE items
  /\ next' = next + 1
  /\ UNCHANGED <<whole, pc, prog, config_valid, addr, ram, old, recheck>>

ForeignWritten ==
  /\ pc = "foreign" /\ next \notin DOMAIN old
  /\ pc' = "native" /\ next' = 1
  /\ UNCHANGED <<flash, prog, config_valid, addr, ram, old, recheck>>

NativeEntry(t) == [key |-> t.key, size |-> t.size, val |-> ram[t.key]]

(* The loop over g_device_config.                                          *)
WriteNative ==
  /\ pc = "native" /\ next \in DOMAIN Table[prog]
  /\ items' = Append(items, NativeEntry(Table[prog][next]))
  /\ next' = next + 1
  /\ UNCHANGED <<whole, pc, prog, config_valid, addr, ram, old, recheck>>

NativeWritten == next \notin DOMAIN Table[prog]

(* The last flush, and the validation the console command adds.            *)
WriteCrc ==
  /\ pc = "native" /\ NativeWritten
  /\ whole' = TRUE /\ pc' = "run" /\ config_valid' = TRUE
  /\ addr' = IF recheck THEN Found(prog, addr) ELSE addr
  /\ old' = <<>> /\ next' = 0 /\ recheck' = FALSE
  /\ UNCHANGED <<items, prog, ram>>

(* What an operation that is broken off leaves in the sector: what it had, *)
(* but an erase may have removed that already.                             *)
FlashBroken ==
  \/ UNCHANGED flash
  \/ pc = "erase" /\ items' = <<>> /\ whole' = FALSE

(* Mutant: config_valid is set again when a write has failed.              *)
FailedValid_True == TRUE
FailedValid == FALSE

(* The flash reports an error, and the save is given up.                   *)
Fail ==
  /\ pc \in {"erase", "foreign", "native"} /\ pc' = "run"
  /\ FlashBroken
  /\ config_valid' = FailedValid
  /\ old' = <<>> /\ next' = 0 /\ recheck' = FALSE
  /\ UNCHANGED <<prog, addr, ram>>

(* Power is lost, or the program is reset or replaced by another.          *)
PowerLoss ==
  /\ pc # "off" /\ pc' = "off" /\ prog' = NoProg
  /\ FlashBroken
  /\ config_valid' = FALSE
  /\ addr' = [k \in Key |-> 0] /\ ram' = [k \in Key |-> Default]
  /\ old' = <<>> /\ next' = 0 /\ recheck' = FALSE

Next ==
  \/ \E p \in Prog : Boot(p)
  \/ \E k \in Key, v \in Value : Set(k, v)
  \/ CfgState \/ Restore
  \/ \E c \in BOOLEAN : WriteStart(c)
  \/ Erase \/ WriteForeign \/ ForeignWritten \/ WriteNative \/ WriteCrc
  \/ Fail \/ PowerLoss

Spec == Init /\ [][Next]_vars

-----------------------------------------------------------------------------
(* Types: one type invariant of the module.                                *)
TypeOK ==
  /\ items \in Seq(Entry) /\ whole \in BOOLEAN
  /\ pc \in {"off", "run", "erase", "foreign", "native"}
  /\ prog \in Prog \union {NoProg} /\ (pc = "off") = (prog = NoProg)
  /\ config_valid \in BOOLEAN
  /\ addr \in [Key -> Nat] /\ ram \in [Key -> Value]
  /\ old \in Seq(Entry) /\ next \in Nat /\ recheck \in BOOLEAN

(* config_valid, on which the next save decides whether there is anything  *)
(* to carry over, is never set over a sector without a matching CRC: not   *)
(* after a failed or interrupted save either (config_system.c:85-131).     *)
ValidIsWhole == config_valid => whole

(* No key is twice in the sector, however many programs and versions have  *)
(* written it: a reader could take the older of two.                       *)
NoDuplicates ==
  \A i, j \in DOMAIN items : items[i].key = items[j].key => i = j

(* When a program reads its settings, each variable gets the value stored  *)
(* under its key, or keeps its own if there is none: a sector torn by a    *)
(* power loss, an entry of another version's size, or an address left by   *)
(* an earlier layout (data_abs_address is never cleared) never get in.     *)
StoredFor(p, k) == {items[i].val : i \in Positions(p, k)}
LoadsWhatIsStored ==
  [][\A k \in Key : ram'[k] # ram[k] /\ pc' = "run" =>
       \/ UNCHANGED <<flash, config_valid, addr>>
       \/ whole /\ k \in Keys(prog') /\ StoredFor(prog', k) = {ram'[k]}]_vars

(* The sector implements a table that is replaced as a whole: a save       *)
(* changes the entries of its own program only, unless an earlier save has *)
(* failed (config_write_storage, both branches).                           *)
AsTable(s) ==
  [k \in {s[i].key : i \in DOMAIN s} |->
     LET i == CHOOSE i \in DOMAIN s : s[i].key = k
     IN  [size |-> s[i].size, val |-> s[i].val]]
OwnTable(p, vals) ==
  AsTable([i \in DOMAIN Table[p] |->
             [key  |-> Table[p][i].key, size |-> Table[p][i].size,
              val |-> vals[Table[p][i].key]]])
OwnTables == UNION {{OwnTable(p, vals) : vals \in [Key -> Value]} : p \in Prog}
Replaced(tab, own) ==
  [k \in DOMAIN own \union DOMAIN tab |-> IF k \in DOMAIN own THEN own[k] ELSE tab[k]]

StoredTable == IF whole THEN AsTable(items) ELSE Lost
GoalTable == IF pc \in {"erase", "foreign", "native"}
             THEN Replaced(AsTable(old), OwnTable(prog, ram)) ELSE Quiet
SC == INSTANCE SavedConfig WITH
        Own <- OwnTables, stored <- StoredTable, trusted <- config_valid, goal <- GoalTable
SavesAsTable == SC!Spec
=============================================================================
