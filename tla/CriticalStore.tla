----------------------------- MODULE CriticalStore -----------------------------
(***************************************************************************)
(* The critical data store of Executive Services (cfe_es_cds.c and         *)
(* cfe_es_cds_mempool.c): memory that survives a processor reset, with a   *)
(* registry of named blocks in it and a copy of the registry in RAM.  The  *)
(* CDS lock lets in one operation at a time; a reset may come between any  *)
(* two of its writes to the store.                                         *)
(***************************************************************************)
EXTENDS BlockPool

CONSTANTS
    Names, NoName,      \* full names of critical data
    MAX_ENTRIES,        \* CFE_PLATFORM_ES_CDS_MAX_NUM_ENTRIES
    SizesOf,            \* sizes an application registers a name with
    ImagesOf,           \* contents that are copied to a name
    Faults              \* what may go wrong: see below

(* "cut": a reset in the middle of a registration or a deletion; "noroom":  *)
(* a registration with a new size that finds no room.                       *)
StoreAssumption ==
    /\ PoolAssumption
    /\ NoName \notin Names /\ MAX_ENTRIES \in Nat \ {0}
    /\ SizesOf \in [Names -> SUBSET (Nat \ {0})]
    /\ DOMAIN ImagesOf = Names
    /\ \A n \in Names : ImagesOf[n] \cap {"zero", "none", "torn"} = {}
    /\ Faults \subseteq {"cut", "noroom"}

VARIABLES
    header,     \* in the store: how far signatures and registry size are written
    saved,      \* in the store: the registry
    desc, data, \* in the store: descriptors; check sums and contents of blocks
    reg, pool,  \* Registry and Pool
    op,         \* the operation in progress
    active,     \* names whose application is there
    wrote       \* the contents each name was last given

vars == <<header, saved, desc, data, reg, pool, op, active, wrote>>

Slots == 0..MAX_ENTRIES - 1
HEADER == 1     \* size of the check sum in front of the contents
EmptyEntry == [name |-> NoName, off |-> NoBlock, size |-> 0]
Idle == [pc |-> "idle", slot |-> 0, name |-> NoName, size |-> 0, img |-> "zero"]
Zero == [img |-> "zero", size |-> 0]

Init ==
    /\ header = "none" /\ saved = [s \in Slots |-> EmptyEntry]
    /\ desc = ClearMemory
    /\ data = [o \in Offsets |-> [crc |-> Zero, body |-> Zero]]
    /\ reg = saved /\ pool = EmptyPool
    /\ op = [Idle EXCEPT !.pc = "clear"]
    /\ active = {} /\ wrote = [n \in Names |-> "none"]

At(pc) == op.pc = pc
Goto(pc) == op' = [op EXCEPT !.pc = pc]

-----------------------------------------------------------------------------
(* CFE_ES_CDS_EarlyInit. *)

(* The store does not validate: it is cleared from the front, signed, and   *)
(* given an empty registry.                                                 *)
ClearCDS ==
    /\ At("clear") /\ Goto("sign")
    /\ header' = "none" /\ saved' = [s \in Slots |-> EmptyEntry]
    /\ desc' = ClearMemory
    /\ data' = [o \in Offsets |-> [crc |-> Zero, body |-> Zero]]
    /\ wrote' = [n \in Names |-> "none"]
    /\ UNCHANGED <<reg, pool, active>>

InitCDSSignatures ==
    /\ At("sign") /\ header' = "signed" /\ Goto("size")
    /\ pool' = EmptyPool
    /\ UNCHANGED <<saved, desc, data, reg, active, wrote>>

InitCDSRegistry ==
    /\ At("size") /\ header' = "sized" /\ Goto("save")
    /\ reg' = [s \in Slots |-> EmptyEntry]
    /\ UNCHANGED <<saved, desc, data, pool, active, wrote>>

(* CFE_ES_RebuildCDS. *)
RebuildCDS ==
    /\ At("rebuild")
    /\ IF header = "sized"
         THEN /\ reg' = saved /\ pool' = Rebuilt(desc).p /\ desc' = Rebuilt(desc).d
              /\ Goto("idle")
         ELSE /\ UNCHANGED <<reg, pool, desc>>
              /\ Goto("clear")
    /\ UNCHANGED <<header, saved, data, active, wrote>>

(* A processor reset: RAM is gone, applications are yet to start. *)
Reset ==
    /\ At("idle") \/ At("body") \/ At("sign") \/ At("size") \/ "cut" \in Faults
    /\ op' = [Idle EXCEPT !.pc = "rebuild"]
    /\ active' = {} /\ reg' = [s \in Slots |-> EmptyEntry] /\ pool' = EmptyPool
    /\ UNCHANGED <<header, saved, desc, data, wrote>>

-----------------------------------------------------------------------------
(* CFE_ES_RegisterCDSEx. *)

SlotOf(n) == {s \in Slots : reg[s].name = n}
FreeSlots == {s \in Slots : reg[s].name = NoName}

HasRoom(p, d, n) == Get(p, d, n).off # NoBlock

(* A name that has a block of another size gives it back first. *)
RegisterNamed(n, size) ==
    /\ At("idle") /\ n \in active
    /\ \E s \in SlotOf(n) :
         /\ reg[s].size # size + HEADER
         /\ op' = [Idle EXCEPT !.pc = "get", !.slot = s, !.name = n, !.size = size + HEADER]
         /\ \/ /\ reg[s].off # NoBlock /\ IsBlock(pool, desc, reg[s].off)
               /\ LET put == Put(pool, desc, reg[s].off)
                  IN  /\ "noroom" \in Faults \/ HasRoom(put.p, put.d, size + HEADER)
                      /\ pool' = put.p /\ desc' = put.d
               /\ reg' = [reg EXCEPT ![s].off = NoBlock, ![s].size = 0]
               /\ wrote' = [wrote EXCEPT ![n] = "none"]
            \/ reg[s].off = NoBlock /\ UNCHANGED <<pool, desc, reg, wrote>>
    /\ UNCHANGED <<header, saved, data, active>>

RegisterNew(n, size) ==
    /\ At("idle") /\ n \in active /\ SlotOf(n) = {}
    /\ \E s \in FreeSlots :
         /\ reg' = [reg EXCEPT ![s] = EmptyEntry]
         /\ op' = [Idle EXCEPT !.pc = "get", !.slot = s, !.name = n, !.size = size + HEADER]
    /\ UNCHANGED <<header, saved, desc, data, pool, active, wrote>>

RegisterGet ==
    LET got == Get(pool, desc, op.size)
    IN  /\ At("get")
        /\ IF got.off # NoBlock
             THEN /\ reg' = [reg EXCEPT ![op.slot] =
                               [name |-> op.name, off |-> got.off, size |-> op.size]]
                  /\ Goto("save")
             ELSE op' = Idle /\ UNCHANGED reg
        /\ pool' = got.p /\ desc' = got.d
        /\ UNCHANGED <<header, saved, data, active, wrote>>

(* Mutant of UpdateCDSRegistry: only the entry in question is written. *)
UpdateNoEntry == [saved EXCEPT ![op.slot] = @]
UpdateCDSRegistry == reg

(* The last step of registration, deletion and initialisation. *)
Save ==
    /\ At("save") /\ saved' = UpdateCDSRegistry /\ op' = Idle
    /\ UNCHANGED <<header, desc, data, reg, pool, active, wrote>>

-----------------------------------------------------------------------------
(* CFE_ES_DeleteCDS: the owner is not active. *)
DeleteCDS(n) ==
    /\ At("idle") /\ n \notin active
    /\ \E s \in SlotOf(n) :
         /\ IsBlock(pool, desc, reg[s].off)
         /\ LET put == Put(pool, desc, reg[s].off)
            IN  pool' = put.p /\ desc' = put.d
         /\ reg' = [reg EXCEPT ![s].name = NoName]
         /\ op' = [Idle EXCEPT !.pc = "save", !.slot = s]
    /\ wrote' = [wrote EXCEPT ![n] = "none"]
    /\ UNCHANGED <<header, saved, data, active>>

(* The block of an entry, as CFE_ES_CDSBlockWrite and Read check it. *)
Sound(s) == IsBlock(pool, desc, reg[s].off) /\ reg[s].size = desc[reg[s].off].actual

(* CFE_ES_CDSBlockWrite: the check sum, then the contents. *)
CopyToCDS(n, img) ==
    /\ At("idle") /\ n \in active
    /\ \E s \in SlotOf(n) :
         /\ Sound(s)
         /\ data' = [data EXCEPT ![reg[s].off].crc = [img |-> img, size |-> reg[s].size]]
         /\ op' = [Idle EXCEPT !.pc = "body", !.slot = s, !.name = n, !.img = img]
         /\ wrote' = [wrote EXCEPT ![n] =
                IF data[reg[s].off].body = [img |-> img, size |-> reg[s].size]
                  THEN img ELSE "torn"]
    /\ UNCHANGED <<header, saved, desc, reg, pool, active>>

CopyToCDSEnd ==
    /\ At("body")
    /\ data' = [data EXCEPT ![reg[op.slot].off].body =
                              [img |-> op.img, size |-> reg[op.slot].size]]
    /\ wrote' = [wrote EXCEPT ![op.name] = op.img]
    /\ op' = Idle
    /\ UNCHANGED <<header, saved, desc, reg, pool, active>>

Checked(s) ==
    LET Whole(i) == i.img = "zero" \/ i.size = reg[s].size
        block == data[reg[s].off]
    IN  block.crc.img = block.body.img /\ Whole(block.crc) /\ Whole(block.body)

(* CFE_ES_CDSBlockRead: what is restored, if anything is. *)
Restored(s) == IF Sound(s) /\ Checked(s) THEN data[reg[s].off].body.img ELSE "error"

(* Applications come and go. *)
Start(n) == At("idle") /\ active' = active \union {n}
            /\ UNCHANGED <<header, saved, desc, data, reg, pool, op, wrote>>
Stop(n) == At("idle") /\ active' = active \ {n}
           /\ UNCHANGED <<header, saved, desc, data, reg, pool, op, wrote>>

Next ==
    \/ ClearCDS \/ InitCDSSignatures \/ InitCDSRegistry \/ RebuildCDS \/ Reset
    \/ \E n \in Names : \/ \E z \in SizesOf[n] : RegisterNamed(n, z) \/ RegisterNew(n, z)
                        \/ \E i \in ImagesOf[n] : CopyToCDS(n, i)
                        \/ DeleteCDS(n) \/ Start(n) \/ Stop(n)
    \/ RegisterGet \/ Save \/ CopyToCDSEnd

Spec == Init /\ [][Next]_vars
-----------------------------------------------------------------------------
Held == {s \in Slots : reg[s].name # NoName /\ reg[s].off # NoBlock}

(* Two names never share a block: what the comment at cfe_es_cds.c:349 says *)
(* the lock is for.                                                         *)
NoSharedBlock == \A s, t \in Held : reg[s].off = reg[t].off => s = t

(* Between operations every block in use is of one entry, every other one   *)
(* is in its list, and the store has the entries that RAM has: also after a   *)
(* reset has rebuilt one from the other.                                    *)
BlocksOwned == At("idle") =>
    /\ NoSharedBlock /\ PoolExact(pool, desc)
    /\ \A s \in Held : Sound(s)
    /\ {o \in Blocks(desc) : desc[o].st = "allocated"} = {reg[s].off : s \in Held}
    /\ \A s \in Slots : saved[s] # reg[s] => saved[s].name = NoName /\ reg[s].name = NoName

(* What a name was last given is what a restore gives, across resets; when  *)
(* the reset came between check sum and contents, nothing is restored.      *)
DataKept == At("idle") => \A s \in Held :
    LET n == reg[s].name
    IN  /\ wrote[n] \in ImagesOf[n] => Restored(s) = wrote[n]
        /\ wrote[n] = "torn" => Restored(s) = "error"

StoreIntact == BlocksOwned /\ DataKept
=============================================================================
