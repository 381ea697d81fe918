----------------------------- MODULE MCPrograms -----------------------------
(***************************************************************************)
(* Small instances, for TLC, of the repository's programs that have no run *)
(* of their own: a behaviour picks one of them and runs it, the variables  *)
(* of the others keep their initial values.  The programs share nothing.   *)
(***************************************************************************)
EXTENDS Arena

VARIABLES
  program,                                          \* which one is run
  scope, live, ptr, loose, fault,                   \* UniquePtr
  file, mode, state, at, printed, kills,            \* FileTail
  assertion, slots, pushCursor, popCursor,          \* Fifo2
  pushPc, pushItem,
  popPc, popItem, sent, received,
  book, pc, next, clock, step, mbook, mpc, mnext    \* OrderBookDriver

CONSTANTS Locals, Objects, Null, MovesUp
CONSTANTS Writers, Readers, WordLen, ReadLen, MaxWords, MaxKills
CONSTANTS Values, Raw, Capacity, Modulus, ZeroInitialized, MayThrow, MaxPushes

\* The ids and quantities of the script.
ScriptIds        == 1 .. 6 \cup {99, 101, 102, 201, 202, 301, 302, 401, 402, 403}
ScriptQuantities == {5, 7, 10, 12, 15, 20, 25, 100}

Ptr    == INSTANCE UniquePtr WITH HasMember <- TRUE
Files  == INSTANCE FileTail WITH offset <- at
Queue  == INSTANCE Fifo2
Driver == INSTANCE OrderBookDriver WITH
            Ids <- ScriptIds, Quantities <- ScriptQuantities, Wrap <- 128,
            MaxPrice <- 10, Ticks <- {0, 1}, PriceAmends <- TRUE, MaxOrders <- 10

ASSUME ProgramsAssumption ==
  /\ Ptr!PtrAssumption /\ Files!TailAssumption /\ Queue!Fifo2Assumption
  /\ Driver!DriverAssumption

ptrVars    == <<scope, live, ptr, loose, fault>>
fileVars   == <<file, mode, state, at, printed, kills>>
queueVars  == <<assertion, slots, pushCursor, popCursor, pushPc, pushItem, popPc, popItem,
                sent, received>>
driverVars == <<book, pc, next, clock, step, mbook, mpc, mnext>>

programVars == <<program, vars, ptrVars, fileVars, queueVars, driverVars>>

ProgramInit ==
  /\ program \in {"arena", "ptr", "files", "queue", "driver"}
  /\ Init /\ Ptr!Init /\ Files!Init /\ Queue!Init /\ Driver!DriverInit

ProgramNext ==
  /\ \/ /\ program = "arena" /\ Next
        /\ UNCHANGED <<ptrVars, fileVars, queueVars, driverVars>>
     \/ /\ program = "ptr" /\ Ptr!Next
        /\ UNCHANGED <<vars, fileVars, queueVars, driverVars>>
     \/ /\ program = "files" /\ Files!Next
        /\ UNCHANGED <<vars, ptrVars, queueVars, driverVars>>
     \/ /\ program = "queue" /\ Queue!Next
        /\ UNCHANGED <<vars, ptrVars, fileVars, driverVars>>
     \/ /\ program = "driver" /\ Driver!DriverNext
        /\ UNCHANGED <<vars, ptrVars, fileVars, queueVars>>
  /\ UNCHANGED program

ProgramSpec == ProgramInit /\ [][ProgramNext]_programVars

-----------------------------------------------------------------------------
(* The properties, each about one of the programs; Tiled is Arena's.       *)

\* UniquePtr: an object that exists has exactly one owner, and nothing is used
\* or deleted after its end (L8/unqiePtr.cpp).
OneOwner == Ptr!OneOwner

\* FileTail: readers print whole words in order (file_descriptors/main.cpp).
PrintsWords == Files!PrintsWords

\* Fifo2: the two threads are never about to access the same slot, and size()
\* is exact for both (SPSC_QUEUES/spsc_q2.cpp).
ThreadSafe == Queue!ThreadSafe

\* Fifo2: two threads behave as one thread does in Fifo1, and that as a queue
\* of bounded length.
ImplementsFifo1 == Queue!ImplementsFifo1 /\ Queue!Sequential!ImplementsBoundedFifo

\* The driver: the matching scenarios end as their titles say, the price amends
\* leave the old order beside the new one (orderbooks/main.cpp).
ScriptOutcome == Driver!ScenariosAsLabelled /\ Driver!AmendsLeaveBoth
=============================================================================
