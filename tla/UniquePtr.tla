------------------------------ MODULE UniquePtr ------------------------------
(***************************************************************************)
(* L8/unqiePtr.cpp: UniquePtr<T>, in a program that keeps some as local    *)
(* variables and one as a member of every T (the next of a list), and that *)
(* may hold objects by plain pointers in between: after new and release(). *)
(* Addresses are used again after a delete.                                *)
(***************************************************************************)
EXTENDS Naturals, FiniteSets

CONSTANTS
  Locals,     \* UniquePtr variables of the program
  Objects,    \* addresses of objects; the member of o is named o as well
  Null,
  HasMember,  \* whether T has a UniquePtr<T> member
  MovesUp     \* whether the program assigns from inside the object it replaces

\* What the model asks of the constants.
PtrAssumption ==
  /\ Locals \cap Objects = {} /\ Null \notin Locals \cup Objects
  /\ HasMember \in BOOLEAN /\ MovesUp \in BOOLEAN

Cells == Locals \cup (IF HasMember THEN Objects ELSE {})

VARIABLES
  scope,  \* the local variables that exist
  live,   \* the objects that exist
  ptr,    \* of each cell
  loose,  \* the objects that the program has to delete itself
  fault   \* whether memory was used after its end or deleted twice

vars == <<scope, live, ptr, loose, fault>>

\* The cells that exist.
Usable == scope \cup (live \cap Cells)

\* What delete p destroys: the object, what its member owns, and so on.
Reach(p) ==
  {o \in Objects : \A S \in SUBSET Objects :
     /\ p # Null => p \in S
     /\ \A x \in S \cap Cells : ptr[x] # Null => ptr[x] \in S
     => o \in S}

Init ==
  /\ scope = {} /\ live = {} /\ loose = {} /\ fault = FALSE
  /\ ptr = [c \in Cells |-> Null]

\* Wrong variant: a destructor, reset or assignment without its delete.
LeavesIt(p) == UNCHANGED <<live, fault>>

\* delete p: it is a fault when anything it destroys is gone already.
Delete(p) ==
  /\ live' = live \ Reach(p)
  /\ fault' = (fault \/ ~(Reach(p) \subseteq live))

-----------------------------------------------------------------------------
(* The program: new, and delete of what it owns by a plain pointer.        *)

New(o) ==
  /\ o \notin live
  /\ live' = live \cup {o} /\ loose' = loose \cup {o}
  /\ ptr' = IF HasMember THEN [ptr EXCEPT ![o] = Null] ELSE ptr
  /\ UNCHANGED <<scope, fault>>

DeleteLoose(o) ==
  /\ o \in loose
  /\ loose' = loose \ {o}
  /\ Delete(o)
  /\ UNCHANGED <<scope, ptr>>

\* The program hands over what it owns, and no object to its own member.
MayOwn(c, p) == p \in loose \cup {Null} /\ c \notin Reach(p)

-----------------------------------------------------------------------------
(* UniquePtr.                                                              *)

Construct(c, p) ==
  /\ c \in Locals \ scope /\ MayOwn(c, p)
  /\ scope' = scope \cup {c}
  /\ ptr' = [ptr EXCEPT ![c] = p]
  /\ loose' = loose \ {p}
  /\ UNCHANGED <<live, fault>>

Destruct(c) ==
  /\ c \in scope
  /\ scope' = scope \ {c}
  /\ Delete(ptr[c])
  /\ UNCHANGED <<ptr, loose>>

\* Wrong variant: the source of a move keeps its pointer.
StillSet(p) == p

\* What a move leaves in other.ptr.
MovedFrom(p) == Null

MoveConstruct(c, d) ==
  /\ c \in Locals \ scope /\ d \in Usable
  /\ scope' = scope \cup {c}
  /\ ptr' = [ptr EXCEPT ![c] = ptr[d], ![d] = MovedFrom(ptr[d])]
  /\ UNCHANGED <<live, loose, fault>>

\* What the load of other.ptr finds after the delete: anything, if the delete
\* has destroyed other.
Loaded(c, d) == IF d \in Reach(ptr[c]) THEN Objects \cup {Null} ELSE {ptr[d]}

\* What is owned from d on does not hold c: the program builds no cycle.
MoveAssign(c, d) ==
  /\ {c, d} \subseteq Usable
  /\ c # d => c \notin Reach(ptr[d])
  /\ MovesUp \/ d \notin Reach(ptr[c])
  /\ IF c = d THEN UNCHANGED <<live, ptr, fault>>
     ELSE /\ live' = live \ Reach(ptr[c])
          /\ fault' = (fault \/ d \in Reach(ptr[c]) \/ ~(Reach(ptr[c]) \subseteq live))
          /\ \E p \in Loaded(c, d) : ptr' = [ptr EXCEPT ![c] = p, ![d] = MovedFrom(ptr[d])]
  /\ UNCHANGED <<scope, loose>>

Release(c) ==
  /\ c \in Usable
  /\ ptr' = [ptr EXCEPT ![c] = Null]
  /\ loose' = loose \cup ({ptr[c]} \ {Null})
  /\ UNCHANGED <<scope, live, fault>>

Reset(c, p) ==
  /\ c \in Usable /\ MayOwn(c, p)
  /\ Delete(ptr[c])
  /\ ptr' = [ptr EXCEPT ![c] = p]
  /\ loose' = loose \ {p}
  /\ UNCHANGED scope

Next ==
  \/ \E o \in Objects : New(o) \/ DeleteLoose(o)
  \/ \E c \in Locals : Destruct(c)
  \/ \E c \in Cells :
       \/ Release(c)
       \/ \E p \in Objects \cup {Null} : Construct(c, p) \/ Reset(c, p)
       \/ \E d \in Cells : MoveConstruct(c, d) \/ MoveAssign(c, d)

Spec == Init /\ [][Next]_vars

-----------------------------------------------------------------------------
(* Properties.                                                             *)

TypeOK ==
  /\ scope \subseteq Locals /\ live \subseteq Objects /\ loose \subseteq live
  /\ ptr \in [Cells -> Objects \cup {Null}]
  /\ fault \in BOOLEAN

\* "Unique ownership", in whatever order pointers are moved, reset, released
\* and destroyed: an object that exists has exactly one owner, a UniquePtr or
\* the program, and is neither leaked nor deleted twice; operator*, operator->
\* and get() never lead to an object that is gone.  No objects own one another
\* in a ring: when the last variable is gone and the program owns nothing, no
\* object is left.
OneOwner ==
  /\ TypeOK
  /\ ~fault
  /\ \A c \in Usable : ptr[c] # Null => ptr[c] \in live
  /\ \A o \in live :
       Cardinality({c \in Usable : ptr[c] = o}) = (IF o \in loose THEN 0 ELSE 1)
  /\ scope = {} /\ loose = {} => live = {}
=============================================================================
