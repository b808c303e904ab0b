------------------------------ MODULE TablesProps ------------------------------
(***************************************************************************)
(* What must hold of Tables.                                               *)
(***************************************************************************)
EXTENDS Tables

(* Every variable has its type. *)
TypeOK ==
    /\ \A r \in Tables :
         /\ reg[r].owner \in Apps \union {NotOwned}
         /\ {reg[r].name, reg[r].kind} \subseteq Names \union {NoName}
         /\ reg[r].head \in Handles \union {NONE}
         /\ reg[r].lip \in {NONE, 0, 1} \union Loads
         /\ reg[r].active \in 0..1
         /\ {reg[r].valActive, reg[r].valInactive} \subseteq Validations \union {NONE}
         /\ reg[r].dumpIndex \in Loads \union {NONE}
    /\ \A h \in Handles : /\ handle[h].reg \in Tables
                          /\ {handle[h].prev, handle[h].next} \subseteq Handles \union {NONE}
    /\ pool \in 0..POOL
    /\ up \subseteq Apps

(* The descriptors of a table are one list, linked both ways, from its      *)
(* head: two applications that come and go in the middle of it, the end and *)
(* the record's next life leave no descriptor outside and none twice.       *)
Leads(r, h) == \* is h the head or reached from another user of r?
    IF handle[h].prev = NONE THEN reg[r].head = h
    ELSE handle[h].prev \in UsersOf(r) /\ handle[handle[h].prev].next = h
Grounded(r) == \* no users lead only to each other
    \A S \in SUBSET UsersOf(r) : S # {} => \E h \in S : handle[h].prev \notin S
AccessListExact == \A r \in Tables :
    /\ Grounded(r)
    /\ reg[r].head = NONE <=> UsersOf(r) = {}
    /\ reg[r].head # NONE => reg[r].head \in UsersOf(r) /\ handle[reg[r].head].prev = NONE
    /\ \A h \in UsersOf(r) :
         /\ Leads(r, h)
         /\ handle[h].next # NONE =>
              handle[h].next \in UsersOf(r) /\ handle[handle[h].next].prev = h
    /\ Owned(r) => \E h \in UsersOf(r) : handle[h].app = reg[r].owner

(* The memory of the pool belongs to tables that somebody uses. *)
BlocksHeld == {b \in Tables \X (1..2) :
                   reg[b[1]].head # NONE /\ b[2] <= Blocks(reg[b[1]].kind)}
PoolOwned == pool + Cardinality(BlocksHeld) = POOL

(* A working buffer is taken by one single-buffered table at a time, for a  *)
(* load or a dump, and given back at its end, whichever way it ends.        *)
LoadersOf(b) == {r \in Tables : reg[r].kind \in Names \ DoubleBuffered /\ reg[r].lip = b}
LoadsOwned == \A b \in Loads :
    Cardinality(LoadersOf(b)) = IF loadBuf[b].taken THEN 1 ELSE 0

(* No buffer is lost and none used twice, whatever becomes of its table. *)
BuffersOwned == TypeOK /\ PoolOwned /\ LoadsOwned

(* A validation or a dump that is outstanding will be found by the user of  *)
(* its table, and what a request refers to is still there.                  *)
RequestsOwned ==
    /\ \A v \in Validations : val[v] = "PENDING" =>
         \E r \in Tables : Owned(r) /\ v \in {reg[r].valActive, reg[r].valInactive}
    /\ \A i \in Loads : dump[i].st # "FREE" =>
         /\ reg[dump[i].r].lip = dump[i].b
         /\ dump[i].st = "PENDING" <=> reg[dump[i].r].dumpIndex = i
    /\ \A r \in Tables : reg[r].valInactive # NONE => Double(r) \/ reg[r].lip # NONE
    /\ \A r \in Tables : reg[r].pend => reg[r].lip # NONE

(* A user who has not been told of a change has had the address since. *)
NoMissedUpdate == \A r \in Tables : \A h \in UsersOf(r) :
    reg[r].loaded /\ ~fresh[h] => handle[h].updated

(* What the CDS has of a critical table is its active image, whenever the   *)
(* processor may be reset.                                                  *)
CriticalSaved == \A r \in Tables :
    Owned(r) /\ reg[r].kind \in Critical /\ reg[r].loaded =>
        cds[reg[r].kind] = Active(r)

(* Only an image that its validation function accepted is activated: what   *)
(* cfe_tbl_msg.h says of the activate command.                              *)
ActivatedValid == [][\A r \in Tables :
    ~reg[r].pend /\ reg'[r].pend /\ CmdIdle /\ UNCHANGED call
        /\ reg[r].kind \in Validating
      => Accepted(IF Double(r) THEN reg[r].buf[Inactive(r)].img
                  ELSE loadBuf[reg[r].lip].img)]_vars

(* Table Services implement TableImages. *)
NoImage == "none"
ImageOf(r) == IF reg[r].loaded THEN Active(r) ELSE NoImage
HeldBy(h) == IF handle[h].lock /\ handle[h].sure
               THEN reg[handle[h].reg].buf[handle[h].buf].img ELSE NoImage
Promise == INSTANCE TableImages WITH
    Users <- Handles,
    current <- [r \in Tables |-> ImageOf(r)],
    held <- [h \in Handles |-> HeldBy(h)]
ImplementsImages == Promise!Spec

(* What an operator asks for is done in the end, unless requests that       *)
(* CFE_TBL_GetStatus reports first keep coming: a pending load before a     *)
(* validation, a validation before a dump.                                  *)
RequestsServed ==
    LET Loading == \E r \in Tables : reg[r].pend
        Validation(v) == val[v] = "PENDING"
    IN  /\ \A r \in Tables : reg[r].pend ~> ~reg[r].pend
        /\ \A v \in Validations : []<>~Validation(v) \/ []<>Loading
        /\ \A i \in Loads : \/ []<>(dump[i].st # "PENDING") \/ []<>Loading
                            \/ \E v \in Validations : []<>Validation(v)
=============================================================================
