----------------------------- MODULE Pkcs11Proofs -----------------------------
(***************************************************************************)
(* Theorems about Pkcs11, for any callers and any use they make of it, and *)
(* about what it reads out of the chip's answers (Pkcs11Encoding).         *)
(***************************************************************************)
EXTENDS Pkcs11Encoding, DataFacts

-----------------------------------------------------------------------------
(* The inductive invariant *)

Locked == {"find", "value", "sign", "random"}     \* operations that take the mutex

\* Which operation can be at which point.
OpAtPoint ==
  \A c \in Callers :
    /\ pc[c] = "idle" => op[c] = "none"
    /\ pc[c] = "lock" => op[c] \in Locked
    /\ pc[c] = "add" => op[c] = "find"
    /\ pc[c] \in {"call", "test", "delay", "check"} => op[c] \in Locked \cup {"keytype", "open"}

\* An instance of the library works for a caller that is waiting for it.
WorksForWaiting ==
  \A i \in Instances, c \in Callers :
    running[i] = c => /\ pc[c] \in {"test", "delay", "check"}
                      /\ InstanceOf(c) = i

\* Initialisation runs alone, and leaves room for an answer that never came.
InitialisationAlone ==
  \A c \in Callers :
    /\ op[c] = "open" /\ pc[c] # "return" => ~xIsInitialized /\ orphans < MAX_ORPHANS
    /\ pc[c] \notin {"idle", "return"} => xIsInitialized \/ op[c] = "open"

Control == TypeOK /\ OpAtPoint /\ WorksForWaiting /\ InitialisationAlone /\ MutexHeldExactly

\* Every slot is empty or holds one of the three objects under its own label.
WellListed ==
  \A s \in Slots : \/ xObjects[s] = Empty
                   \/ /\ xObjects[s].xLabel \in Labels
                      /\ xObjects[s].xHandle = prvFindObject(xObjects[s].xLabel)

\* What is looked for is what the session's label says; no handle outlives the module.
LooksForLabel ==
  \A c \in Callers :
    /\ op[c] = "find" /\ pc[c] # "return" =>
         /\ session[c].pxFindObjectLabel \in Labels
         /\ object[c] = prvFindObject(session[c].pxFindObjectLabel)
    /\ ~xIsInitialized => handle[c] = NoHandles

Listing == WellListed /\ ListedOnce /\ LooksForLabel /\ HandleNamesObject

\* As long as nothing else writes the status, a success in it is the chip's answer to the
\* caller that waits.
StatusIsAnswer ==
  \A c \in Callers :
    /\ pc[c] \in {"idle", "lock"} => chip[c] = "none"
    /\ c \notin disturbed =>
         /\ pc[c] = "call" => optigaLibStatus = "busy"
         /\ pc[c] \in {"test", "delay", "check"} /\ optigaLibStatus = "success" => chip[c] = "success"

Answers == StatusIsAnswer /\ SuccessIsGenuine

-----------------------------------------------------------------------------
(* Type correctness *)

\* "none", "free", "nobody" and "abandoned" are not callers.
LEMMA SpecialValues == \A c \in Callers : c \notin {"none", "free", "nobody", "abandoned"}
BY CallersAssumption

\* The records of an empty slot and of a closed session.
LEMMA EmptyRecords ==
  /\ Empty \in ObjectRecords
  /\ Closed \in SessionRecords
  /\ [Closed EXCEPT !.xOpened = TRUE] \in SessionRecords
  /\ NoHandles \in [Labels -> 0..pkcs11configMAX_NUM_OBJECTS]
<1>1. Empty \in ObjectRecords
  BY DEF Empty, ObjectRecords
<1>2. Closed \in SessionRecords
  BY DEF Closed, SessionRecords, KeyTypes
<1>3. [Closed EXCEPT !.xOpened = TRUE] \in SessionRecords
  BY DEF Closed, SessionRecords, KeyTypes
<1>4. NoHandles \in [Labels -> 0..pkcs11configMAX_NUM_OBJECTS]
  BY ListAssumption DEF NoHandles
<1> QED
  BY <1>1, <1>2, <1>3, <1>4

\* What the layer writes into a session.
LEMMA SessionUpdates ==
  ASSUME NEW s \in SessionRecords
  PROVE  /\ \A l \in Labels \cup {"none"} : [s EXCEPT !.pxFindObjectLabel = l] \in SessionRecords
         /\ \A m \in Mechanisms \cup {"none"} : [s EXCEPT !.xSignMechanism = m] \in SessionRecords
         /\ \A m \in Mechanisms, l \in Labels \cup {"none"} :
              [s EXCEPT !.xSignKeyOid = l, !.xSignMechanism = m] \in SessionRecords
         /\ \A t \in KeyTypes : [s EXCEPT !.xKeyType = t] \in SessionRecords
<1>1. \A l \in Labels \cup {"none"} : [s EXCEPT !.pxFindObjectLabel = l] \in SessionRecords
  BY DEF SessionRecords
<1>2. \A m \in Mechanisms \cup {"none"} : [s EXCEPT !.xSignMechanism = m] \in SessionRecords
  BY DEF SessionRecords
<1>3. \A m \in Mechanisms, l \in Labels \cup {"none"} :
        [s EXCEPT !.xSignKeyOid = l, !.xSignMechanism = m] \in SessionRecords
  BY DEF SessionRecords
<1>4. \A t \in KeyTypes : [s EXCEPT !.xKeyType = t] \in SessionRecords
  BY DEF SessionRecords
<1> QED
  BY <1>1, <1>2, <1>3, <1>4

LEMMA InitTypeOK == Init => TypeOK
<1> SUFFICES ASSUME Init PROVE TypeOK
  OBVIOUS
<1>1. ContextTypeOK
  <2>1. waitCounter \in 0..PKCS11_OPTIGA_WAIT_COUNTER_MAX
    BY WaitAssumption DEF Init
  <2>2. xObjects \in [Slots -> ObjectRecords]
    BY EmptyRecords DEF Init
  <2> QED
    BY <2>1, <2>2 DEF Init, ContextTypeOK
<1>2. ChipTypeOK
  BY OrphanAssumption DEF Init, ChipTypeOK, Instances
<1>3. SessionTypeOK
  BY EmptyRecords DEF Init, SessionTypeOK
<1>4. ProgressTypeOK
  BY DEF Init, ProgressTypeOK
<1> QED
  BY <1>1, <1>2, <1>3, <1>4 DEF TypeOK

\* A set of slots that is not empty has a first one.
LEMMA FirstSlot ==
  ASSUME NEW S \in SUBSET Slots, S # {}
  PROVE  \E s \in S : \A t \in S : s <= t
<1>1. S \subseteq Nat
  BY ListAssumption DEF Slots
<1>2. \E s \in S : \A t \in S : <<t, s>> \notin OpToRel(<, Nat)
  BY <1>1, NatLessThanWellFounded, WFMin
<1>3. PICK s \in S : \A t \in S : <<t, s>> \notin OpToRel(<, Nat)
  BY <1>2
<1>4. ASSUME NEW t \in S PROVE s <= t
  <2>1. s \in Nat /\ t \in Nat
    BY <1>1
  <2>2. ~(t < s)
    BY <1>1, <1>3 DEF OpToRel
  <2> QED
    BY <2>1, <2>2
<1> QED
  BY <1>4

\* What the object list says of a label, and of a handle.
LEMMA PalHandleTyped ==
  ASSUME ContextTypeOK, NEW label \in Labels
  PROVE  PalHandleOf(label) \in PalHandles \cup {"InvalidHandle"}
<1>1. CASE ListedAs(label) = {}
  BY <1>1 DEF PalHandleOf, prvFindObject, Labels, PalHandles
<1>2. CASE ListedAs(label) # {}
  <2> DEFINE first == CHOOSE s \in ListedAs(label) : \A t \in ListedAs(label) : s <= t
  <2>1. \E s \in ListedAs(label) : \A t \in ListedAs(label) : s <= t
    BY <1>2, FirstSlot DEF ListedAs
  <2>2. first \in Slots
    BY <2>1 DEF ListedAs
  <2>3. xObjects[first].xHandle \in PalHandles \cup {"InvalidHandle"}
    BY <2>2 DEF ContextTypeOK, ObjectRecords
  <2> QED
    BY <1>2, <2>3 DEF PalHandleOf
<1> QED
  BY <1>1, <1>2

LEMMA ObjectTyped ==
  ASSUME ContextTypeOK, NEW h PROVE ObjectOf(h) \in ObjectRecords
BY EmptyRecords DEF ObjectOf, ContextTypeOK

\* A write of the status, and the beginning of an operation, keep the types.
LEMMA StatusWritten ==
  ASSUME ContextTypeOK, ChipTypeOK, NEW d
  PROVE  /\ \A v \in {"busy", "success", "error"} : WriteStatus(d, v) =>
              optigaLibStatus' \in {"busy", "success", "error"} /\ disturbed' \subseteq Callers
         /\ SetBusy(d) => optigaLibStatus' = "busy" /\ disturbed' \subseteq Callers
BY DEF ChipTypeOK, WriteStatus, SetBusy, Waiting

LEMMA BeginTyped ==
  ASSUME ProgressTypeOK, NEW c \in Callers, NEW o \in Operations \cup {"none", "open"},
         NEW pal \in PalHandles \cup {"InvalidHandle"},
         NEW point \in {"idle", "lock", "call", "add", "return"}, Begin(c, o, pal, point)
  PROVE  ProgressTypeOK'
BY DEF ProgressTypeOK, Begin, Goto

\* Of the calls, C_Initialize and the key query touch the context.
LEMMA StartContext ==
  ASSUME TypeOK, NEW c \in Callers, Start(c) PROVE ContextTypeOK'
<1> USE DEF TypeOK
<1>1. CASE C_Initialize(c)
  <2>1. xObjects' \in [Slots -> ObjectRecords]
    BY <1>1, EmptyRecords DEF C_Initialize, ClearContext
  <2>2. waitCounter' \in 0..PKCS11_OPTIGA_WAIT_COUNTER_MAX
    BY <1>1, WaitAssumption DEF C_Initialize, ClearContext
  <2>3. optigaLibStatus' \in {"busy", "success", "error"}
    BY <1>1 DEF C_Initialize, SetBusy
  <2> QED
    BY <1>1, <2>1, <2>2, <2>3 DEF C_Initialize, Finalize, ContextTypeOK, Instances
<1>2. CASE GetKeyType(c)
  BY <1>2 DEF GetKeyType, SetBusy, ContextTypeOK
<1>3. CASE UNCHANGED context_vars
  BY <1>3 DEF context_vars, ContextTypeOK
<1> QED
  BY <1>1, <1>2, <1>3
     DEF Start, C_OpenSession, C_CloseSession, C_FindObjectsInit, C_FindObjectsFinal, GetValue,
         C_FindObjects, C_SignInit, C_Sign, C_GenerateRandom

LEMMA StartChip ==
  ASSUME TypeOK, NEW c \in Callers, Start(c) PROVE ChipTypeOK'
<1> USE DEF TypeOK
<1>1. CASE C_Initialize(c) \/ GetKeyType(c)
  BY <1>1, StatusWritten DEF C_Initialize, GetKeyType, ChipTypeOK
<1>2. CASE C_Sign(c)
  BY <1>2 DEF C_Sign, ChipTypeOK
<1>3. CASE UNCHANGED <<running, orphans, chip, accepted, disturbed>>
  BY <1>3 DEF ChipTypeOK
<1> QED
  BY <1>1, <1>2, <1>3
     DEF Start, C_OpenSession, C_CloseSession, C_FindObjectsInit, C_FindObjectsFinal, GetValue,
         C_FindObjects, C_SignInit, C_GenerateRandom

LEMMA StartSession ==
  ASSUME TypeOK, NEW c \in Callers, Start(c) PROVE SessionTypeOK'
<1> USE DEF TypeOK, SessionTypeOK
<1>1. CASE C_OpenSession(c) \/ C_CloseSession(c)
  BY <1>1, EmptyRecords DEF C_OpenSession, C_CloseSession
<1>2. ASSUME NEW l \in Labels, C_FindObjectsInit(c, l) PROVE SessionTypeOK'
  BY <1>2, SessionUpdates DEF C_FindObjectsInit
<1>3. CASE C_FindObjectsFinal(c)
  BY <1>3, SessionUpdates DEF C_FindObjectsFinal
<1>4. ASSUME NEW l \in Labels, NEW m \in Mechanisms, C_SignInit(c, l, m) PROVE SessionTypeOK'
  <2> DEFINE oid == IF ObjectOf(handle[c][l]).xHandle = "DevicePrivateKey"
                    THEN ObjectOf(handle[c][l]).xLabel ELSE session[c].xSignKeyOid
  <2>1. oid \in Labels \cup {"none"}
    BY ObjectTyped DEF ObjectRecords, SessionRecords
  <2>2. [session[c] EXCEPT !.xSignKeyOid = oid, !.xSignMechanism = m] \in SessionRecords
    BY <2>1, SessionUpdates
  <2> QED
    BY <1>4, <2>2 DEF C_SignInit
<1>5. CASE C_Sign(c)
  <2>1. [session[c] EXCEPT !.xSignMechanism = "none"] \in SessionRecords
    BY SessionUpdates
  <2> QED
    BY <1>5, <2>1 DEF C_Sign
<1>6. CASE UNCHANGED <<session, handle>>
  BY <1>6
<1> QED
  BY <1>1, <1>2, <1>3, <1>4, <1>5, <1>6
     DEF Start, C_Initialize, GetValue, C_FindObjects, GetKeyType, C_GenerateRandom

LEMMA StartProgress ==
  ASSUME TypeOK, NEW c \in Callers, Start(c) PROVE ProgressTypeOK'
<1> USE DEF TypeOK, Operations, PalHandles
<1>1. CASE C_Initialize(c) \/ GetKeyType(c) \/ C_Sign(c) \/ C_GenerateRandom(c)
  BY <1>1, BeginTyped DEF C_Initialize, GetKeyType, C_Sign, C_GenerateRandom, ProgressTypeOK
<1>2. ASSUME NEW l \in Labels, GetValue(c, l) PROVE ProgressTypeOK'
  BY <1>2, BeginTyped DEF GetValue
<1>3. CASE C_FindObjects(c)
  <2>1. session[c].pxFindObjectLabel \in Labels
    BY <1>3 DEF C_FindObjects, SessionTypeOK, SessionRecords
  <2> QED
    BY <1>3, <2>1, PalHandleTyped, BeginTyped DEF C_FindObjects
<1>4. CASE UNCHANGED <<pc, op, object>>
  BY <1>4 DEF ProgressTypeOK
<1> QED
  BY <1>1, <1>2, <1>3, <1>4
     DEF Start, C_OpenSession, C_CloseSession, C_FindObjectsInit, C_FindObjectsFinal, C_SignInit

\* prvAddObjectToList, and taking the mutex.
LEMMA TakesMutexTypeOK ==
  ASSUME TypeOK, NEW c \in Callers, TakesMutex(c) PROVE TypeOK'
<1> USE DEF TypeOK
<1>1. CASE Lock(c)
  BY <1>1, StatusWritten
     DEF Lock, Goto, ContextTypeOK, ChipTypeOK, SessionTypeOK, ProgressTypeOK
<1>2. CASE prvAddObjectToList(c)
  <2>0. Slots \subseteq 0..pkcs11configMAX_NUM_OBJECTS
    BY ListAssumption DEF Slots
  <2>1. SessionTypeOK'
    <3>1. PICK s \in Slots : GiveHandle(c, s)
      BY <1>2 DEF prvAddObjectToList, Holding
    <3>2. session' = session
      BY <1>2 DEF prvAddObjectToList
    <3> QED
      BY <2>0, <3>1, <3>2 DEF GiveHandle, SessionTypeOK
  <2>2. xObjects' \in [Slots -> ObjectRecords]
    <3>1. [xHandle |-> object[c], xLabel |-> session[c].pxFindObjectLabel] \in ObjectRecords
      BY DEF ProgressTypeOK, SessionTypeOK, SessionRecords, ObjectRecords
    <3> QED
      BY <1>2, <3>1 DEF prvAddObjectToList, Holding, ContextTypeOK
  <2>3. ContextTypeOK'
    BY <1>2, <2>2 DEF prvAddObjectToList, ContextTypeOK
  <2>4. ChipTypeOK' /\ ProgressTypeOK'
    BY <1>2 DEF prvAddObjectToList, Return, Goto, ChipTypeOK, ProgressTypeOK
  <2> QED
    BY <2>1, <2>3, <2>4
<1> QED
  BY <1>1, <1>2 DEF TakesMutex

\* A caller that goes on with its operation.
LEMMA ProceedContext ==
  ASSUME TypeOK, NEW c \in Callers, Proceed(c) PROVE ContextTypeOK'
<1> USE DEF TypeOK
<1>1. CASE Accept(c)
  BY <1>1, WaitAssumption DEF Accept, ContextTypeOK
<1>2. CASE Refuse(c) \/ Test(c)
  BY <1>2 DEF Refuse, Test, Finalize, GiveMutexBack, ContextTypeOK
<1>3. CASE Delay(c)
  <2>1. waitCounter' \in 0..PKCS11_OPTIGA_WAIT_COUNTER_MAX
    BY <1>3, WaitAssumption DEF Delay, ContextTypeOK
  <2>2. optigaLibStatus' \in {"busy", "success", "error"}
    BY <1>3 DEF Delay, WriteStatus, ContextTypeOK
  <2> QED
    BY <1>3, <2>1, <2>2 DEF Delay, ContextTypeOK
<1>4. CASE Check(c)
  BY <1>4 DEF Check, CheckOpen, CheckFind, CheckKeyType, CheckSign, CheckData, Finalize,
              GiveMutexBack, ContextTypeOK
<1>5. CASE Finish(c)
  BY <1>5 DEF Finish, context_vars, ContextTypeOK
<1> QED
  BY <1>1, <1>2, <1>3, <1>4, <1>5 DEF Proceed, Call

\* Only a failing initialisation adds to the answers nobody waits for; it has room for one.
LEMMA ProceedChip ==
  ASSUME Control, NEW c \in Callers, Proceed(c) PROVE ChipTypeOK'
<1> USE DEF Control, TypeOK
<1>1. CASE Accept(c)
  BY <1>1 DEF Accept, InstanceOf, Instances, ChipTypeOK
<1>5. CASE Refuse(c)
  <2>1. accepted' \in [Callers -> BOOLEAN]
    BY <1>5 DEF Refuse, ChipTypeOK
  <2> QED
    BY <1>5, <2>1 DEF Refuse, ChipTypeOK
<1>2. CASE Test(c) \/ Finish(c)
  BY <1>2 DEF Test, Finish, ChipTypeOK
<1>3. CASE Delay(c)
  BY <1>3, StatusWritten DEF Delay, ChipTypeOK
<1>4. CASE Check(c)
  <2>1. running' \in [Instances -> Callers \cup {"nobody", "abandoned"}]
    BY <1>4 DEF Check, CheckOpen, CheckFind, CheckKeyType, CheckSign, CheckData, Abandon,
                Instances, ChipTypeOK
  <2>2. orphans' \in 0..MAX_ORPHANS
    <3>1. CASE op[c] = "open"
      <4>1. orphans < MAX_ORPHANS
        BY <1>4, <3>1 DEF Check, InitialisationAlone
      <4> QED
        BY <1>4, <3>1, <4>1, OrphanAssumption
           DEF Check, CheckOpen, CheckFind, CheckKeyType, CheckSign, CheckData, ChipTypeOK
    <3>2. CASE op[c] # "open"
      BY <1>4, <3>2
         DEF Check, CheckOpen, CheckFind, CheckKeyType, CheckSign, CheckData, ChipTypeOK
    <3> QED
      BY <3>1, <3>2
  <2> QED
    BY <1>4, <2>1, <2>2 DEF Check, ChipTypeOK
<1> QED
  BY <1>1, <1>2, <1>3, <1>4, <1>5 DEF Proceed, Call

LEMMA ProceedSession ==
  ASSUME TypeOK, NEW c \in Callers, Proceed(c) PROVE SessionTypeOK'
<1> USE DEF TypeOK, SessionTypeOK
<1>1. \A t \in KeyTypes : [session[c] EXCEPT !.xKeyType = t] \in SessionRecords
  BY SessionUpdates
<1>2. \A m \in Mechanisms \cup {"none"} : [session[c] EXCEPT !.xSignMechanism = m] \in SessionRecords
  BY SessionUpdates
<1>3. session[c].xKeyType \in KeyTypes /\ session[c].xSignMechanism \in Mechanisms \cup {"none"}
  BY DEF SessionRecords
<1>4. CASE Refuse(c)
  <2> DEFINE type == IF op[c] = "keytype" THEN "unknown" ELSE session[c].xKeyType
  <2>1. [session[c] EXCEPT !.xKeyType = type] \in SessionRecords
    BY <1>1, <1>3 DEF KeyTypes
  <2> QED
    BY <1>4, <2>1 DEF Refuse
<1>5. CASE Check(c) /\ op[c] = "keytype"
  <2>1. PICK type \in KeyTypes : session' = [session EXCEPT ![c].xKeyType = type]
    BY <1>5, KeyAssumption
       DEF Check, CheckOpen, CheckFind, CheckKeyType, CheckSign, CheckData, KeyTypes
  <2>2. [session[c] EXCEPT !.xKeyType = type] \in SessionRecords
    BY <1>1
  <2>3. handle' = handle
    BY <1>5 DEF Check
  <2> QED
    BY <2>1, <2>2, <2>3
<1>6. CASE Check(c) /\ op[c] = "sign"
  <2> DEFINE m == IF optigaLibStatus = "success" THEN "none" ELSE session[c].xSignMechanism
  <2>1. [session[c] EXCEPT !.xSignMechanism = m] \in SessionRecords
    BY <1>2, <1>3
  <2> QED
    BY <1>6, <2>1 DEF Check, CheckOpen, CheckFind, CheckKeyType, CheckSign, CheckData
<1>7. CASE Check(c) /\ op[c] \notin {"keytype", "sign"}
  BY <1>7 DEF Check, CheckOpen, CheckFind, CheckKeyType, CheckSign, CheckData
<1>8. CASE Accept(c) \/ Test(c) \/ Delay(c) \/ Finish(c)
  BY <1>8 DEF Accept, Test, Delay, Finish
<1> QED
  BY <1>4, <1>5, <1>6, <1>7, <1>8 DEF Proceed, Call

LEMMA ProceedProgress ==
  ASSUME TypeOK, NEW c \in Callers, Proceed(c) PROVE ProgressTypeOK'
BY BeginTyped
   DEF TypeOK, ProgressTypeOK, Proceed, Call, Accept, Refuse, Test, Delay, Check, CheckOpen,
       CheckFind, CheckKeyType, CheckSign, CheckData, Return, Goto, Finish

\* C_Finalize and the chip's answers.
LEMMA OthersTypeOK ==
  ASSUME TypeOK, C_Finalize \/ OrphanCallback \/ \E i \in Instances : optiga_callback(i)
  PROVE  TypeOK'
<1> USE DEF TypeOK
<1>1. CASE C_Finalize
  <2>1. orphans' \in 0..MAX_ORPHANS
    BY <1>1, OrphanAssumption DEF C_Finalize, OwedAnswers, Owed, ChipTypeOK
  <2>2. SessionTypeOK'
    BY <1>1, EmptyRecords DEF C_Finalize, SessionTypeOK
  <2> QED
    BY <1>1, <2>1, <2>2 DEF C_Finalize, Finalize, ContextTypeOK, ChipTypeOK, ProgressTypeOK
<1>2. CASE OrphanCallback
  <2>1. orphans' \in 0..MAX_ORPHANS
    BY <1>2, OrphanAssumption DEF OrphanCallback, ChipTypeOK
  <2> QED
    BY <1>2, <2>1, StatusWritten
       DEF OrphanCallback, caller_vars, ContextTypeOK, ChipTypeOK, SessionTypeOK, ProgressTypeOK
<1>3. ASSUME NEW i \in Instances, optiga_callback(i) PROVE TypeOK'
  <2>1. chip' \in [Callers -> {"none", "refused", "pending", "success", "error"}]
    BY <1>3 DEF optiga_callback, ChipTypeOK
  <2>2. ContextTypeOK' /\ disturbed' \subseteq Callers
    BY <1>3, StatusWritten DEF optiga_callback, ContextTypeOK
  <2> QED
    BY <1>3, <2>1, <2>2 DEF optiga_callback, ChipTypeOK, SessionTypeOK, ProgressTypeOK
<1> QED
  BY <1>1, <1>2, <1>3

LEMMA NextTypeOK == Control /\ [Next]_vars => TypeOK'
<1> SUFFICES ASSUME Control, [Next]_vars PROVE TypeOK'
  OBVIOUS
<1> USE DEF Control
<1>1. ASSUME NEW c \in Callers, Start(c) PROVE TypeOK'
  BY <1>1, StartContext, StartChip, StartSession, StartProgress DEF TypeOK
<1>2. ASSUME NEW c \in Callers, Proceed(c) PROVE TypeOK'
  BY <1>2, ProceedContext, ProceedChip, ProceedSession, ProceedProgress DEF TypeOK
<1>3. CASE UNCHANGED vars
  BY <1>3 DEF vars, context_vars, caller_vars, TypeOK, ContextTypeOK, ChipTypeOK, SessionTypeOK,
              ProgressTypeOK
<1> QED
  BY <1>1, <1>2, <1>3, TakesMutexTypeOK, OthersTypeOK DEF Next

-----------------------------------------------------------------------------
(* Control: who is where, who holds the mutex, whom the chip works for *)

\* What a call that does not wait for the chip yet leaves alone.
LEMMA StartFrame ==
  ASSUME NEW c \in Callers, Start(c), ~C_Initialize(c), ~GetKeyType(c)
  PROVE  UNCHANGED <<context_vars, running, orphans, handle, disturbed>>
BY DEF Start, C_OpenSession, C_CloseSession, C_FindObjectsInit, C_FindObjectsFinal, GetValue,
       C_FindObjects, C_SignInit, C_Sign, C_GenerateRandom

\* Where it leads to.
LEMMA StartLeadsTo ==
  ASSUME TypeOK, NEW c \in Callers, Start(c), ~C_Initialize(c), ~GetKeyType(c)
  PROVE  \/ UNCHANGED <<pc, op, object>>
         \/ /\ pc[c] = "idle" /\ xIsInitialized
            /\ \E pal \in PalHandles \cup {"InvalidHandle"} :
                 \/ \E o \in Locked : Begin(c, o, pal, "lock")
                 \/ Begin(c, "find", pal, "add")
                 \/ Begin(c, "sign", pal, "return")
<1>1. CASE C_FindObjects(c)
  <2>1. session[c].pxFindObjectLabel \in Labels
    BY <1>1 DEF C_FindObjects, TypeOK, SessionTypeOK, SessionRecords
  <2>2. PalHandleOf(session[c].pxFindObjectLabel) \in PalHandles \cup {"InvalidHandle"}
    BY <2>1, PalHandleTyped DEF TypeOK
  <2> QED
    BY <1>1, <2>2 DEF C_FindObjects, InUse, Ready, Locked
<1>2. CASE C_Sign(c) \/ C_GenerateRandom(c)
  BY <1>2 DEF C_Sign, C_GenerateRandom, InUse, Ready, Locked, PalHandles
<1>3. ASSUME NEW l \in Labels, GetValue(c, l) PROVE \E pal \in PalHandles : Begin(c, "value", pal, "lock") /\ InUse(c)
  BY <1>3 DEF GetValue, PalHandles
<1> QED
  BY <1>1, <1>2, <1>3
     DEF Start, C_OpenSession, C_CloseSession, C_FindObjectsInit, C_FindObjectsFinal,
         C_SignInit, InUse, Ready, Locked

LEMMA StartControl ==
  ASSUME Control, NEW c \in Callers, Start(c)
  PROVE  OpAtPoint' /\ WorksForWaiting' /\ InitialisationAlone' /\ MutexHeldExactly'
<1> USE SpecialValues DEF Control, TypeOK, ProgressTypeOK
<1>1. CASE C_Initialize(c)
  <2>1. OpAtPoint'
    BY <1>1 DEF C_Initialize, Begin, Goto, OpAtPoint, Locked
  <2>2. WorksForWaiting'
    BY <1>1 DEF C_Initialize, Begin, Goto, Quiescent, WorksForWaiting
  <2>3. InitialisationAlone'
    BY <1>1 DEF C_Initialize, Begin, Goto, Quiescent, Finalize, OpAtPoint, InitialisationAlone
  <2>4. MutexHeldExactly'
    BY <1>1 DEF C_Initialize, Begin, Goto, Quiescent, Finalize, MutexHeldExactly, MayHold
  <2> QED
    BY <2>1, <2>2, <2>3, <2>4
<1>2. CASE GetKeyType(c)
  <2>1. OpAtPoint'
    BY <1>2 DEF GetKeyType, Begin, Goto, OpAtPoint, Locked
  <2>2. WorksForWaiting'
    BY <1>2 DEF GetKeyType, Begin, Goto, InUse, Ready, WorksForWaiting, InstanceOf
  <2>3. InitialisationAlone'
    BY <1>2 DEF GetKeyType, Begin, Goto, InUse, Ready, InitialisationAlone
  <2>4. MutexHeldExactly'
    BY <1>2 DEF GetKeyType, Begin, Goto, InUse, Ready, MutexHeldExactly, MayHold
  <2> QED
    BY <2>1, <2>2, <2>3, <2>4
<1>3. CASE ~C_Initialize(c) /\ ~GetKeyType(c)
  <2>0. UNCHANGED <<xIsInitialized, xOptigaMutex, running, orphans>>
    BY <1>3, StartFrame DEF context_vars
  <2>1. OpAtPoint'
    BY <1>3, StartLeadsTo DEF Begin, Goto, OpAtPoint, Locked
  <2>2. WorksForWaiting'
    BY <1>3, <2>0, StartLeadsTo DEF Begin, Goto, WorksForWaiting, InstanceOf
  <2>3. InitialisationAlone'
    BY <1>3, <2>0, StartLeadsTo DEF Begin, Goto, Locked, InitialisationAlone
  <2>4. MutexHeldExactly'
    BY <1>3, <2>0, StartLeadsTo DEF Begin, Goto, MutexHeldExactly, MayHold
  <2> QED
    BY <2>1, <2>2, <2>3, <2>4
<1> QED
  BY <1>1, <1>2, <1>3

LEMMA TakesMutexControl ==
  ASSUME Control, NEW c \in Callers, TakesMutex(c)
  PROVE  OpAtPoint' /\ WorksForWaiting' /\ InitialisationAlone' /\ MutexHeldExactly'
<1> USE SpecialValues DEF Control, TypeOK, ProgressTypeOK
<1>1. CASE Lock(c)
  BY <1>1 DEF Lock, Goto, OpAtPoint, Locked, WorksForWaiting, InstanceOf, InitialisationAlone,
              MutexHeldExactly, MayHold
<1>2. CASE prvAddObjectToList(c)
  BY <1>2 DEF prvAddObjectToList, Return, Goto, OpAtPoint, WorksForWaiting, InstanceOf,
              InitialisationAlone, MutexHeldExactly, MayHold
<1> QED
  BY <1>1, <1>2 DEF TakesMutex

\* There is one caller at most in C_Initialize, because it holds the mutex.
LEMMA OneOpener ==
  ASSUME Control, NEW c \in Callers, NEW d \in Callers,
         op[c] = "open", pc[c] \notin {"idle", "return"},
         op[d] = "open", pc[d] \notin {"idle", "return"}
  PROVE  c = d
BY DEF Control, TypeOK, ProgressTypeOK, OpAtPoint, Locked, MutexHeldExactly, MayHold

LEMMA ProceedPoints ==
  ASSUME Control, NEW c \in Callers, Proceed(c) PROVE OpAtPoint'
<1> USE DEF Control, TypeOK, ProgressTypeOK, OpAtPoint
<1>1. CASE Call(c) \/ Test(c) \/ Delay(c) \/ Finish(c)
  BY <1>1 DEF Call, Accept, Refuse, Test, Delay, Finish, Begin, Goto
<1>2. CASE Check(c)
  BY <1>2 DEF Check, CheckOpen, CheckFind, CheckKeyType, CheckSign, CheckData, Return, Goto
<1> QED
  BY <1>1, <1>2 DEF Proceed

LEMMA ProceedWorks ==
  ASSUME Control, NEW c \in Callers, Proceed(c) PROVE WorksForWaiting'
<1> USE SpecialValues DEF Control, TypeOK, ProgressTypeOK, ChipTypeOK, WorksForWaiting, InstanceOf
<1>1. CASE Accept(c)
  BY <1>1 DEF Accept, Goto
<1>2. CASE Refuse(c) \/ Test(c) \/ Delay(c) \/ Finish(c)
  BY <1>2 DEF Refuse, Test, Delay, Finish, Begin, Goto
<1>3. CASE Check(c) /\ op[c] = "open"
  BY <1>3 DEF Check, CheckOpen, CheckFind, CheckKeyType, CheckSign, CheckData, Abandon, Return,
              Goto, Instances
<1>4. CASE Check(c) /\ op[c] # "open"
  <2>1. Abandon(c) /\ op' = op /\ \A d \in Callers \ {c} : pc'[d] = pc[d]
    BY <1>4 DEF Check, CheckOpen, CheckFind, CheckKeyType, CheckSign, CheckData, Return, Goto
  <2> QED
    BY <2>1 DEF Abandon
<1> QED
  BY <1>1, <1>2, <1>3, <1>4 DEF Proceed, Call

LEMMA ProceedAlone ==
  ASSUME Control, NEW c \in Callers, Proceed(c) PROVE InitialisationAlone'
<1> USE DEF Control, TypeOK, ProgressTypeOK, InitialisationAlone
<1>1. CASE Accept(c) \/ Test(c) \/ Delay(c) \/ Finish(c)
  BY <1>1 DEF Accept, Test, Delay, Finish, Begin, Goto, context_vars
<1>2. CASE Refuse(c)
  BY <1>2 DEF Refuse, Finalize, Goto
<1>3. CASE Check(c) /\ op[c] = "open"
  <2>1. pc' = [pc EXCEPT ![c] = "return"] /\ op' = op
    BY <1>3 DEF Check, CheckOpen, CheckFind, CheckKeyType, CheckSign, CheckData, Return, Goto
  <2>2. \A d \in Callers : op'[d] = "open" => pc'[d] = "return"
    BY <1>3, <2>1, OneOpener DEF Check, OpAtPoint
  <2>3. \A d \in Callers : pc'[d] \notin {"idle", "return"} => d # c /\ op[d] # "open" /\ xIsInitialized
    BY <2>1, <2>2
  <2>4. ~xIsInitialized
    BY <1>3 DEF Check
  <2> QED
    BY <2>2, <2>3, <2>4
<1>4. CASE Check(c) /\ op[c] # "open"
  BY <1>4 DEF Check, CheckOpen, CheckFind, CheckKeyType, CheckSign, CheckData, Return, Goto
<1> QED
  BY <1>1, <1>2, <1>3, <1>4 DEF Proceed, Call

LEMMA ProceedMutex ==
  ASSUME Control, NEW c \in Callers, Proceed(c) PROVE MutexHeldExactly'
<1> USE SpecialValues DEF Control, TypeOK, ProgressTypeOK, MutexHeldExactly, MayHold
<1>1. CASE Accept(c) \/ Delay(c) \/ Finish(c)
  BY <1>1 DEF Accept, Delay, Finish, Begin, Goto, context_vars
<1>2. CASE Refuse(c) \/ Test(c)
  BY <1>2 DEF Refuse, Test, Finalize, GiveMutexBack, Goto
<1>3. CASE Check(c)
  BY <1>3 DEF Check, CheckOpen, CheckFind, CheckKeyType, CheckSign, CheckData, Finalize,
              GiveMutexBack, Return, Goto
<1> QED
  BY <1>1, <1>2, <1>3 DEF Proceed, Call

LEMMA OthersControl ==
  ASSUME Control, C_Finalize \/ OrphanCallback \/ \E i \in Instances : optiga_callback(i)
  PROVE  OpAtPoint' /\ WorksForWaiting' /\ InitialisationAlone' /\ MutexHeldExactly'
<1> USE SpecialValues DEF Control
<1>1. CASE C_Finalize
  BY <1>1 DEF C_Finalize, Quiescent, Finalize, OpAtPoint, WorksForWaiting, InitialisationAlone,
              MutexHeldExactly, MayHold
<1>2. CASE OrphanCallback
  BY <1>2, OrphanAssumption
     DEF OrphanCallback, caller_vars, OpAtPoint, WorksForWaiting, InstanceOf, InitialisationAlone,
         MutexHeldExactly, MayHold, TypeOK, ChipTypeOK
<1>3. ASSUME NEW i \in Instances, optiga_callback(i)
      PROVE  OpAtPoint' /\ WorksForWaiting' /\ InitialisationAlone' /\ MutexHeldExactly'
  BY <1>3 DEF optiga_callback, OpAtPoint, WorksForWaiting, InstanceOf, InitialisationAlone,
              MutexHeldExactly, MayHold, TypeOK, ChipTypeOK
<1> QED
  BY <1>1, <1>2, <1>3

LEMMA InitControl == Init => Control
<1> SUFFICES ASSUME Init PROVE Control
  OBVIOUS
<1> QED
  BY InitTypeOK, SpecialValues
     DEF Init, Control, OpAtPoint, WorksForWaiting, InitialisationAlone, MutexHeldExactly, MayHold

LEMMA NextControl == Control /\ [Next]_vars => Control'
<1> SUFFICES ASSUME Control, [Next]_vars PROVE Control'
  OBVIOUS
<1>1. TypeOK'
  BY NextTypeOK
<1>2. ASSUME NEW c \in Callers, Proceed(c)
      PROVE  OpAtPoint' /\ WorksForWaiting' /\ InitialisationAlone' /\ MutexHeldExactly'
  BY <1>2, ProceedPoints, ProceedWorks, ProceedAlone, ProceedMutex
<1>3. CASE UNCHANGED vars
  BY <1>1, <1>3 DEF vars, context_vars, caller_vars, Control, OpAtPoint, WorksForWaiting, InstanceOf,
              InitialisationAlone, MutexHeldExactly, MayHold
<1> QED
  BY <1>1, <1>2, <1>3, StartControl, TakesMutexControl, OthersControl DEF Next, Control

\* Every variable of the PKCS#11 layer keeps its type.
THEOREM TypeCorrect == Spec => []TypeOK
<1>1. Control => TypeOK
  BY DEF Control
<1> QED
  BY <1>1, InitControl, NextControl, PTL DEF Spec

\* Mutual exclusion, on every path through an operation: the mutex is held by exactly the
\* caller that has taken it and not given it back, whatever the chip does or fails to do.
THEOREM MutexCorrect == Spec => []MutexHeldExactly
<1>1. Control => MutexHeldExactly
  BY DEF Control
<1> QED
  BY <1>1, InitControl, NextControl, PTL DEF Spec

-----------------------------------------------------------------------------
(* The status is written by others in three cases only *)

\* Who can be waiting although he does not hold the mutex.
LEMMA WaitsWithoutMutex ==
  ASSUME Control, NEW c \in Waiting, xOptigaMutex # c
  PROVE  KeyQuery(c) \/ (op[c] = "sign" /\ pc[c] = "check")
BY DEF Control, TypeOK, ProgressTypeOK, OpAtPoint, MutexHeldExactly, MayHold, Waiting, KeyQuery

\* A caller in the middle of its wait holds the mutex, or is a key query.
LEMMA HoldsWhileWaiting ==
  ASSUME Control, NEW d \in Callers, pc[d] \in {"call", "test", "delay"}
  PROVE  xOptigaMutex = d \/ KeyQuery(d)
BY DEF Control, MutexHeldExactly, MayHold, KeyQuery

\* An operation's status is written by another one only as a late answer, to or by a key
\* query, which does without the mutex, or after C_Sign has given the mutex back.
THEOREM DisturbanceExplained == Spec => DisturbedOnlyBy
<1>1. Control /\ [Next]_vars => [\A c \in disturbed' \ disturbed : Explained(c)]_vars
  <2> SUFFICES ASSUME Control, [Next]_vars, NEW c \in disturbed' \ disturbed
               PROVE  Explained(c)
    OBVIOUS
  <2>0. c \in Callers
    BY NextTypeOK DEF TypeOK, ChipTypeOK
  <2>1. ASSUME NEW d \in Callers, Start(d) PROVE Explained(c)
    <3>1. CASE C_Initialize(d)
      BY <3>1 DEF C_Initialize, Quiescent, Waiting, SetBusy
    <3>2. CASE GetKeyType(d)
      <4>1. KeyQuery(d)'
        BY <3>2 DEF GetKeyType, Begin, Goto, KeyQuery, Control, TypeOK, ProgressTypeOK
      <4> QED
        BY <4>1 DEF Explained
    <3>3. CASE ~C_Initialize(d) /\ ~GetKeyType(d)
      BY <2>1, <3>3, StartFrame
    <3> QED
      BY <3>1, <3>2, <3>3
  <2>2. ASSUME NEW d \in Callers, TakesMutex(d) PROVE Explained(c)
    <3>1. Lock(d)
      BY <2>2 DEF TakesMutex, prvAddObjectToList
    <3>2. c \in Waiting /\ xOptigaMutex = "free"
      BY <3>1 DEF Lock, SetBusy
    <3>3. xOptigaMutex # c
      BY <3>2, SpecialValues DEF Waiting
    <3>4. KeyQuery(c) \/ (op[c] = "sign" /\ pc[c] = "check")
      BY <3>2, <3>3, WaitsWithoutMutex
    <3> QED
      BY <2>0, <3>4 DEF Explained
  <2>3. ASSUME NEW d \in Callers, Proceed(d) PROVE Explained(c)
    <3>1. Delay(d) /\ c \in Waiting \ {d}
      BY <2>3 DEF Proceed, Call, Accept, Refuse, Test, Check, Finish, Delay, WriteStatus
    <3>2. xOptigaMutex = d \/ KeyQuery(d)
      BY <3>1, HoldsWhileWaiting DEF Delay
    <3>3. xOptigaMutex = d => KeyQuery(c) \/ (op[c] = "sign" /\ pc[c] = "check")
      BY <3>1, WaitsWithoutMutex
    <3> QED
      BY <2>0, <3>2, <3>3 DEF Explained
  <2>4. ASSUME NEW i \in Instances, optiga_callback(i) PROVE Explained(c)
    <3>1. running[i] # "nobody" /\ running'[i] = "nobody" /\ c \in Waiting \ {running[i]}
      BY <2>4 DEF optiga_callback, WriteStatus, Control, TypeOK, ChipTypeOK
    <3>2. CASE running[i] \in GivenUp
      BY <3>1, <3>2 DEF LateAnswer, Explained
    <3>3. CASE running[i] \notin GivenUp
      <4>1. running[i] \in Callers
        BY <3>1, <3>3 DEF GivenUp, Control, TypeOK, ChipTypeOK
      <4>2. pc[running[i]] \in {"test", "delay"}
        BY <3>3, <4>1 DEF GivenUp, Control, WorksForWaiting
      <4>3. xOptigaMutex = running[i] \/ KeyQuery(running[i])
        BY <4>1, <4>2, HoldsWhileWaiting
      <4>4. xOptigaMutex = running[i] => KeyQuery(c) \/ (op[c] = "sign" /\ pc[c] = "check")
        BY <3>1, WaitsWithoutMutex
      <4> QED
        BY <2>0, <4>1, <4>3, <4>4 DEF Explained
    <3> QED
      BY <3>2, <3>3
  <2>5. CASE OrphanCallback
    BY <2>5, OrphanAssumption DEF OrphanCallback, LateAnswer, Explained, Control, TypeOK, ChipTypeOK
  <2>6. CASE C_Finalize \/ UNCHANGED vars
    BY <2>6 DEF C_Finalize, vars
  <2> QED
    BY <2>1, <2>2, <2>3, <2>4, <2>5, <2>6 DEF Next
<1> QED
  BY <1>1, InitControl, NextControl, PTL DEF Spec, DisturbedOnlyBy

-----------------------------------------------------------------------------
(* The object list *)

\* Only C_Initialize and prvAddObjectToList change the list; only prvAddObjectToList and
\* C_Finalize change handles.
LEMMA ListFrame ==
  ASSUME [Next]_vars
  PROVE  /\ \/ \E c \in Callers : C_Initialize(c) \/ prvAddObjectToList(c)
            \/ UNCHANGED xObjects
         /\ \/ \E c \in Callers : prvAddObjectToList(c)
            \/ C_Finalize
            \/ UNCHANGED handle
<1>1. ASSUME NEW c \in Callers, Start(c), ~C_Initialize(c) PROVE UNCHANGED <<xObjects, handle>>
  BY <1>1, StartFrame DEF GetKeyType, context_vars
<1>2. ASSUME NEW c \in Callers, Proceed(c) PROVE UNCHANGED <<xObjects, handle>>
  BY <1>2 DEF Proceed, Call, Accept, Refuse, Test, Delay, Check, Finish, context_vars
<1> QED
  BY <1>1, <1>2
     DEF Next, TakesMutex, Lock, C_Initialize, C_Finalize, optiga_callback, OrphanCallback,
         vars, context_vars, caller_vars

\* A listed label leads to the same object as the fixed table.
LEMMA LabelLeadsToObject ==
  ASSUME WellListed, NEW label \in Labels PROVE PalHandleOf(label) = prvFindObject(label)
<1>1. CASE ListedAs(label) = {}
  BY <1>1 DEF PalHandleOf
<1>2. CASE ListedAs(label) # {}
  <2> DEFINE first == CHOOSE s \in ListedAs(label) : \A t \in ListedAs(label) : s <= t
  <2>1. \E s \in ListedAs(label) : \A t \in ListedAs(label) : s <= t
    BY <1>2, FirstSlot DEF ListedAs
  <2>2. first \in Slots /\ xObjects[first].xLabel = label
    BY <2>1 DEF ListedAs
  <2>3. xObjects[first].xHandle = prvFindObject(label)
    BY <2>2 DEF WellListed, Empty, Labels
  <2> QED
    BY <1>2, <2>3 DEF PalHandleOf
<1> QED
  BY <1>1, <1>2

\* The three labels name three objects, and no free slot.
LEMMA ObjectsDiffer ==
  /\ \A l, m \in Labels : prvFindObject(l) = prvFindObject(m) => l = m
  /\ \A l \in Labels : prvFindObject(l) # "InvalidHandle"
BY DEF prvFindObject, Labels

LEMMA AddKeepsList ==
  ASSUME Control, Listing, NEW c \in Callers, prvAddObjectToList(c)
  PROVE  WellListed' /\ ListedOnce' /\ HandleNamesObject'
<1> DEFINE label == session[c].pxFindObjectLabel
<1>1. label \in Labels /\ object[c] = prvFindObject(label)
  BY DEF prvAddObjectToList, Control, OpAtPoint, Listing, LooksForLabel
<1>2. session' = session /\ handle \in [Callers -> [Labels -> 0..pkcs11configMAX_NUM_OBJECTS]]
  BY DEF prvAddObjectToList, Control, TypeOK, SessionTypeOK
<1>3. xObjects \in [Slots -> ObjectRecords]
  BY DEF Control, TypeOK, ContextTypeOK
<1>4. CASE Holding(object[c]) # {}
  <2>1. PICK s \in Holding(object[c]) : GiveHandle(c, s) /\ UNCHANGED xObjects
    BY <1>4 DEF prvAddObjectToList
  <2>2. xObjects[s].xHandle = prvFindObject(label) /\ xObjects[s].xLabel = label
    BY <1>1, <2>1, ObjectsDiffer DEF Holding, Listing, WellListed, Empty
  <2>3. WellListed' /\ ListedOnce'
    BY <2>1 DEF Listing, WellListed, ListedOnce
  <2>4. HandleNamesObject'
    BY <1>1, <1>2, <2>1, <2>2 DEF GiveHandle, Listing, HandleNamesObject
  <2> QED
    BY <2>3, <2>4
<1>5. CASE Holding(object[c]) = {}
  <2> DEFINE new == [xHandle |-> object[c], xLabel |-> label]
  <2>1. PICK s \in Holding("InvalidHandle") :
          GiveHandle(c, s) /\ xObjects' = [xObjects EXCEPT ![s] = new]
    BY <1>5 DEF prvAddObjectToList
  <2>2. s \in Slots /\ xObjects[s] = Empty
    BY <2>1, ObjectsDiffer DEF Holding, Listing, WellListed
  <2>3. xObjects'[s] = new /\ \A t \in Slots \ {s} : xObjects'[t] = xObjects[t]
    BY <1>3, <2>1, <2>2
  <2>4. \A t \in Slots : xObjects[t].xHandle # object[c]
    BY <1>5 DEF Holding
  <2>5. WellListed'
    BY <1>1, <2>3 DEF Listing, WellListed
  <2>6. ListedOnce'
    BY <2>3, <2>4 DEF Listing, ListedOnce
  <2>7. ASSUME NEW d \in Callers, NEW l \in Labels, handle'[d][l] # 0
        PROVE  xObjects'[handle'[d][l]].xLabel = l /\ xObjects'[handle'[d][l]].xHandle = prvFindObject(l)
    <3>1. CASE d = c /\ l = label
      BY <1>1, <1>2, <2>1, <2>3, <3>1 DEF GiveHandle
    <3>2. CASE ~(d = c /\ l = label)
      <4>1. handle'[d][l] = handle[d][l]
        BY <1>2, <2>1, <3>2 DEF GiveHandle
      <4>2. /\ handle[d][l] \in Slots
            /\ xObjects[handle[d][l]].xLabel = l
            /\ xObjects[handle[d][l]].xHandle = prvFindObject(l)
        BY <1>2, <2>7, <4>1, ListAssumption DEF Listing, HandleNamesObject, Slots
      <4>3. handle[d][l] # s
        BY <2>2, <4>2 DEF Empty, Labels
      <4> QED
        BY <2>3, <4>1, <4>2, <4>3
    <3> QED
      BY <3>1, <3>2
  <2>8. HandleNamesObject'
    BY <2>7 DEF HandleNamesObject
  <2> QED
    BY <2>5, <2>6, <2>8
<1> QED
  BY <1>4, <1>5

LEMMA NextList ==
  ASSUME Control, Listing, [Next]_vars PROVE WellListed' /\ ListedOnce' /\ HandleNamesObject'
<1> USE DEF Listing
<1>1. CASE \E c \in Callers : prvAddObjectToList(c)
  BY <1>1, AddKeepsList
<1>2. CASE \E c \in Callers : C_Initialize(c)
  <2>1. handle' = handle /\ ~xIsInitialized /\ \A s \in Slots : xObjects'[s] = Empty
    BY <1>2 DEF C_Initialize, ClearContext
  <2>2. \A c \in Callers : handle[c] = NoHandles
    BY <2>1 DEF LooksForLabel
  <2> QED
    BY <2>1, <2>2 DEF WellListed, ListedOnce, HandleNamesObject, NoHandles, Empty
<1>3. CASE UNCHANGED xObjects /\ (C_Finalize \/ UNCHANGED handle)
  <2>1. WellListed' /\ ListedOnce'
    BY <1>3 DEF WellListed, ListedOnce
  <2>2. HandleNamesObject'
    BY <1>3 DEF C_Finalize, NoHandles, HandleNamesObject
  <2> QED
    BY <2>1, <2>2
<1> QED
  BY <1>1, <1>2, <1>3, ListFrame DEF prvAddObjectToList, C_Finalize, C_Initialize

LEMMA StartLooks ==
  ASSUME Control, Listing, NEW c \in Callers, Start(c) PROVE LooksForLabel'
<1> USE DEF Control, TypeOK, SessionTypeOK, ProgressTypeOK, Listing, LooksForLabel, OpAtPoint
<1>1. CASE C_FindObjects(c)
  <2>1. session[c].pxFindObjectLabel \in Labels
    BY <1>1 DEF C_FindObjects, SessionRecords
  <2> QED
    BY <1>1, <2>1, LabelLeadsToObject DEF C_FindObjects, Begin, Goto, context_vars
<1>2. CASE C_Initialize(c) \/ GetKeyType(c)
  BY <1>2 DEF C_Initialize, GetKeyType, Begin, Goto, Finalize
<1>3. CASE C_Sign(c) \/ C_GenerateRandom(c)
  BY <1>3 DEF C_Sign, C_GenerateRandom, Begin, Goto, context_vars
<1>4. ASSUME NEW l \in Labels, GetValue(c, l) PROVE LooksForLabel'
  BY <1>4 DEF GetValue, Begin, Goto, context_vars
<1>5. CASE UNCHANGED <<xIsInitialized, handle, pc, op, object>> /\ pc[c] = "idle"
            /\ \A d \in Callers \ {c} : session'[d] = session[d]
  BY <1>5
<1> QED
  BY <1>1, <1>2, <1>3, <1>4, <1>5
     DEF Start, C_OpenSession, C_CloseSession, C_FindObjectsInit, C_FindObjectsFinal, C_SignInit,
         InUse, Ready, context_vars

LEMMA NextLooks ==
  ASSUME Control, Listing, [Next]_vars PROVE LooksForLabel'
<1> USE DEF Control, TypeOK, SessionTypeOK, ProgressTypeOK, Listing, LooksForLabel, OpAtPoint
<1>1. ASSUME NEW c \in Callers, TakesMutex(c) PROVE LooksForLabel'
  <2>1. CASE Lock(c)
    BY <2>1 DEF Lock, Goto
  <2>2. CASE prvAddObjectToList(c)
    BY <2>2 DEF prvAddObjectToList, Return, Goto, InitialisationAlone
  <2> QED
    BY <1>1, <2>1, <2>2 DEF TakesMutex
<1>2. ASSUME NEW c \in Callers, Call(c) \/ Test(c) \/ Delay(c) \/ Finish(c) PROVE LooksForLabel'
  <2>1. CASE Accept(c) \/ Test(c) \/ Delay(c) \/ Finish(c)
    BY <2>1 DEF Accept, Test, Delay, Finish, Begin, Goto, context_vars
  <2>2. CASE Refuse(c)
    <3>1. \A d \in Callers : session'[d].pxFindObjectLabel = session[d].pxFindObjectLabel
      BY <2>2 DEF Refuse, SessionRecords
    <3> QED
      BY <2>2, <3>1 DEF Refuse, Finalize, Goto, InitialisationAlone
  <2> QED
    BY <1>2, <2>1, <2>2 DEF Call
<1>3. ASSUME NEW c \in Callers, Check(c) PROVE LooksForLabel'
  <2>1. \A d \in Callers : session'[d].pxFindObjectLabel = session[d].pxFindObjectLabel
    <3>1. CASE op[c] = "keytype"
      <4>1. PICK type : session' = [session EXCEPT ![c].xKeyType = type]
        BY <1>3, <3>1 DEF Check, CheckOpen, CheckFind, CheckKeyType, CheckSign, CheckData
      <4> QED
        BY <4>1 DEF SessionRecords
    <3>2. CASE op[c] = "sign"
      BY <1>3, <3>2
         DEF Check, CheckOpen, CheckFind, CheckKeyType, CheckSign, CheckData, SessionRecords
    <3>3. CASE op[c] \notin {"keytype", "sign"}
      BY <1>3, <3>3 DEF Check, CheckOpen, CheckFind, CheckKeyType, CheckSign, CheckData
    <3> QED
      BY <3>1, <3>2, <3>3
  <2> QED
    BY <1>3, <2>1
       DEF Check, CheckOpen, CheckFind, CheckKeyType, CheckSign, CheckData, Finalize, Return, Goto,
           InitialisationAlone
<1>4. CASE C_Finalize
  BY <1>4 DEF C_Finalize, Quiescent
<1>5. CASE UNCHANGED <<xIsInitialized, session, handle, pc, op, object>>
  BY <1>5
<1> QED
  BY <1>1, <1>2, <1>3, <1>4, <1>5, StartLooks
     DEF Next, Proceed, optiga_callback, OrphanCallback, vars, context_vars, caller_vars

LEMMA ListingInvariant == Spec => [](Control /\ Listing)
<1>1. Init => Listing
  BY DEF Init, Listing, WellListed, ListedOnce, LooksForLabel, HandleNamesObject, NoHandles, Empty
<1>2. Control /\ Listing /\ [Next]_vars => Listing'
  BY NextList, NextLooks DEF Listing
<1> QED
  BY <1>1, <1>2, InitControl, NextControl, PTL DEF Spec

\* Two callers that look for the same object at the same time do not list it twice.
THEOREM ListCorrect == Spec => []ListedOnce
<1>1. Listing => ListedOnce
  BY DEF Listing
<1> QED
  BY <1>1, ListingInvariant, PTL

\* A handle names the object that was asked for, until C_Finalize.
THEOREM HandlesCorrect == Spec => []HandleNamesObject
<1>1. Listing => HandleNamesObject
  BY DEF Listing
<1> QED
  BY <1>1, ListingInvariant, PTL

-----------------------------------------------------------------------------
(* The layer implements TokenService *)

\* An object is in the directory at a place if the slot lists it.
LEMMA DirectoryIs ==
  ASSUME WellListed, NEW l \in Labels, NEW s \in Slots
  PROVE  <<l, s>> \in Directory <=> xObjects[s].xLabel = l
<1>1. <<l, s>> \in Directory <=> xObjects[s].xHandle # "InvalidHandle" /\ xObjects[s].xLabel = l
  BY DEF Directory, Holding
<1>2. xObjects[s].xLabel = l => xObjects[s].xHandle # "InvalidHandle"
  BY ObjectsDiffer DEF WellListed, Empty, Labels
<1> QED
  BY <1>1, <1>2

\* Nobody has the token when the mutex is free or does not exist, and when all is quiet.
LEMMA HolderIs ==
  ASSUME Control
  PROVE  /\ \A c \in Callers : xOptigaMutex = c => Holder = c /\ Holder # "nobody"
         /\ xOptigaMutex \notin Callers => Holder = "nobody"
         /\ Quiescent => Holder = "nobody"
BY SpecialValues DEF Holder, Control, MutexHeldExactly, MayHold, Quiescent

\* What leaves the mutex, the list, the handles and the initialisation alone goes unseen.
LEMMA TokenUnseen ==
  UNCHANGED <<xIsInitialized, xOptigaMutex, xObjects, handle>> => UNCHANGED Token!vars
BY DEF Token!vars, Holder, Directory, Holding

\* C_Initialize begins to open the token, with an empty directory, or has failed.
LEMMA InitializeBegins ==
  ASSUME Control, NEW c \in Callers, C_Initialize(c) PROVE Token!Begin(c)
<1>1. ~xIsInitialized /\ Holder = "nobody"
  BY HolderIs DEF C_Initialize
<1>2. Directory' = {}
  BY DEF C_Initialize, ClearContext, Directory, Holding, Empty
<1>3. Holder' \in {c, "nobody"}
  BY SpecialValues DEF C_Initialize, Finalize, Holder
<1>4. xIsInitialized' = xIsInitialized
  BY <1>1 DEF C_Initialize, Finalize, Control, TypeOK, ContextTypeOK
<1> QED
  BY <1>1, <1>2, <1>3, <1>4 DEF C_Initialize, Token!Begin

\* C_Finalize closes the token.
LEMMA FinalizeCloses == ASSUME Control, C_Finalize PROVE Token!Close
<1>1. Holder = "nobody" /\ Holder' = "nobody"
  BY HolderIs, SpecialValues DEF C_Finalize, Finalize, Holder
<1>2. Directory' = Directory
  BY DEF C_Finalize, Directory, Holding
<1> QED
  BY <1>1, <1>2 DEF C_Finalize, Finalize, NoHandles, Token!Close

\* An object that is listed is told at its place; one that is not, at a place that was free.
LEMMA AddLooksUp ==
  ASSUME Control, Listing, WellListed', NEW c \in Callers, prvAddObjectToList(c)
  PROVE  \E l \in Labels, p \in Slots : Token!LookUp(c, l, p)
<1> DEFINE label == session[c].pxFindObjectLabel
<1>1. label \in Labels /\ object[c] = prvFindObject(label)
  BY DEF prvAddObjectToList, Control, OpAtPoint, Listing, LooksForLabel
<1>2. /\ xIsInitialized /\ UNCHANGED <<xIsInitialized, xOptigaMutex>>
      /\ Holder = "nobody" /\ Holder' = "nobody"
  BY SpecialValues DEF prvAddObjectToList, Control, OpAtPoint, InitialisationAlone, Holder
<1>3. PICK s \in Slots :
        /\ GiveHandle(c, s)
        /\ \/ s \in Holding(object[c]) /\ UNCHANGED xObjects
           \/ /\ Holding(object[c]) = {} /\ s \in Holding("InvalidHandle")
              /\ xObjects' = [xObjects EXCEPT ![s] = [xHandle |-> object[c], xLabel |-> label]]
  BY DEF prvAddObjectToList, Holding
<1>4. CASE s \in Holding(object[c]) /\ UNCHANGED xObjects
  <2>1. xObjects[s].xLabel = label
    BY <1>1, <1>4, ObjectsDiffer DEF Holding, Listing, WellListed, Empty
  <2>2. <<label, s>> \in Directory /\ Directory' = Directory
    BY <1>1, <1>4, <2>1, DirectoryIs DEF Listing, Directory, Holding
  <2> QED
    BY <1>1, <1>2, <1>3, <2>2 DEF GiveHandle, Token!LookUp, Token!Listed
<1>5. CASE /\ Holding(object[c]) = {} /\ s \in Holding("InvalidHandle")
           /\ xObjects' = [xObjects EXCEPT ![s] = [xHandle |-> object[c], xLabel |-> label]]
  <2>1. xObjects[s] = Empty
    BY <1>5, ObjectsDiffer DEF Holding, Listing, WellListed
  <2>2. \A q \in Slots : xObjects[q].xLabel # label
    BY <1>1, <1>5 DEF Holding, Listing, WellListed, Empty, Labels
  <2>3. Token!New(label, s)
    BY <1>1, <2>1, <2>2, DirectoryIs DEF Token!New, Token!Listed, Listing, Empty, Labels
  <2>4. /\ xObjects'[s] = [xHandle |-> object[c], xLabel |-> label]
        /\ \A t \in Slots \ {s} : xObjects'[t] = xObjects[t]
    BY <1>5 DEF Control, TypeOK, ContextTypeOK
  <2>5. Slots \ Holding("InvalidHandle")' = (Slots \ Holding("InvalidHandle")) \cup {s}
    BY <1>1, <2>4, ObjectsDiffer DEF Holding
  <2>6. Directory' = Directory \cup {<<label, s>>}
    BY <1>5, <2>4, <2>5 DEF Directory
  <2> QED
    BY <1>1, <1>2, <1>3, <2>3, <2>6 DEF GiveHandle, Token!LookUp
<1> QED
  BY <1>3, <1>4, <1>5

\* What a caller does while its operation runs takes the token or gives it back.
LEMMA ProceedServes ==
  ASSUME Control, NEW c \in Callers, Proceed(c)
  PROVE  Token!Opened \/ Token!GiveBack \/ UNCHANGED Token!vars
<1>1. UNCHANGED <<xObjects, handle>> /\ Directory' = Directory
  BY DEF Proceed, Call, Accept, Refuse, Test, Delay, Check, Finish, context_vars, Directory, Holding
<1>2. CASE Accept(c) \/ Delay(c) \/ Finish(c)
  BY <1>1, <1>2, TokenUnseen DEF Accept, Delay, Finish, context_vars
<1>3. CASE xIsInitialized' = xIsInitialized /\ GiveMutexBack(c)
  <2>1. CASE xOptigaMutex = c
    <3>1. Holder = c /\ Holder # "nobody"
      BY <2>1, HolderIs
    <3>2. Holder' = "nobody"
      BY <1>3, <2>1, SpecialValues DEF GiveMutexBack, Holder
    <3> QED
      BY <1>1, <1>3, <3>1, <3>2 DEF Token!GiveBack
  <2>2. CASE xOptigaMutex # c
    BY <1>1, <1>3, <2>2, TokenUnseen DEF GiveMutexBack
  <2> QED
    BY <2>1, <2>2
<1>4. CASE /\ op[c] = "open" /\ pc[c] \in {"call", "check"}
           /\ Finalize \/ (xIsInitialized' = TRUE /\ xOptigaMutex' = "free")
  <2>1. ~xIsInitialized /\ xOptigaMutex = c
    BY <1>4 DEF Control, InitialisationAlone, MutexHeldExactly, MayHold
  <2>2. Holder = c /\ Holder # "nobody"
    BY <2>1, HolderIs
  <2>3. Holder' = "nobody"
    BY <1>4, SpecialValues DEF Finalize, Holder
  <2>4. xIsInitialized \in BOOLEAN
    BY DEF Control, TypeOK, ContextTypeOK
  <2> QED
    BY <1>1, <1>4, <2>1, <2>2, <2>3, <2>4 DEF Finalize, Token!Opened, Token!GiveBack
<1>5. CASE Refuse(c)
  BY <1>3, <1>4, <1>5 DEF Refuse
<1>6. CASE Test(c)
  BY <1>1, <1>3, <1>6, TokenUnseen DEF Test
<1>7. CASE Check(c)
  <2>1. CASE CheckOpen(c)
    BY <1>4, <1>7, <2>1 DEF Check, CheckOpen
  <2>2. CASE CheckFind(c) \/ CheckData(c)
    BY <1>3, <2>2 DEF CheckFind, CheckData
  <2>3. CASE CheckKeyType(c) \/ CheckSign(c)
    BY <1>1, <2>3, TokenUnseen DEF CheckKeyType, CheckSign
  <2> QED
    BY <1>7, <2>1, <2>2, <2>3 DEF Check
<1> QED
  BY <1>2, <1>5, <1>6, <1>7 DEF Proceed, Call

LEMMA LockTakes == ASSUME Control, NEW c \in Callers, Lock(c) PROVE Token!Take(c)
<1>1. xIsInitialized /\ Holder = "nobody" /\ Holder' = c
  BY SpecialValues DEF Lock, Control, OpAtPoint, Locked, InitialisationAlone, Holder
<1>2. Directory' = Directory
  BY DEF Lock, Directory, Holding
<1> QED
  BY <1>1, <1>2 DEF Lock, Token!Take

LEMMA EachStepServes ==
  ASSUME Control, Listing, Control', Listing', [Next]_vars PROVE [Token!Next]_(Token!vars)
<1>1. ASSUME NEW c \in Callers, C_Initialize(c) PROVE Token!Next
  BY <1>1, InitializeBegins DEF Token!Next
<1>2. ASSUME NEW c \in Callers, Start(c), ~C_Initialize(c) PROVE UNCHANGED Token!vars
  BY <1>2, StartFrame, TokenUnseen DEF GetKeyType, context_vars
<1>3. ASSUME NEW c \in Callers, prvAddObjectToList(c) PROVE Token!Next
  BY <1>3, AddLooksUp DEF Listing, Token!Next
<1>4. ASSUME NEW c \in Callers, Lock(c) PROVE Token!Next
  BY <1>4, LockTakes DEF Token!Next
<1>5. ASSUME NEW c \in Callers, Proceed(c) PROVE [Token!Next]_(Token!vars)
  BY <1>5, ProceedServes DEF Token!Next
<1>6. CASE C_Finalize
  BY <1>6, FinalizeCloses DEF Token!Next
<1>7. CASE OrphanCallback \/ (\E i \in Instances : optiga_callback(i)) \/ UNCHANGED vars
  BY <1>7, TokenUnseen DEF OrphanCallback, optiga_callback, vars, context_vars, caller_vars
<1> QED
  BY <1>1, <1>2, <1>3, <1>4, <1>5, <1>6, <1>7 DEF Next, TakesMutex

\* The layer implements a token that one client at a time has to itself, and that tells all
\* of them the same places of the objects found since it was opened, for any callers, any
\* use they make of it and any length of the object list.
THEOREM TokenRefined == Spec => ImplementsTokenService
<1>1. Init => Token!Init
  BY SpecialValues DEF Init, Token!Init, Holder, Directory, Holding, Empty, NoHandles
<1>2. Control /\ Listing /\ (Control /\ Listing)' /\ [Next]_vars => [Token!Next]_(Token!vars)
  BY EachStepServes
<1> QED
  BY <1>1, <1>2, ListingInvariant, PTL DEF Spec, ImplementsTokenService, Token!Spec

-----------------------------------------------------------------------------
(* A success that nobody has disturbed is the chip's *)

\* Whoever c is, a write of the status makes every other waiting caller disturbed.
LEMMA StartAnswers ==
  ASSUME Control, Answers, NEW c \in Callers, Start(c) PROVE Answers'
<1> USE DEF Control, TypeOK, ProgressTypeOK, ChipTypeOK, Answers, StatusIsAnswer, SuccessIsGenuine
<1>1. CASE C_Initialize(c)
  BY <1>1 DEF C_Initialize, Begin, Goto, SetBusy, Quiescent, Waiting
<1>2. CASE GetKeyType(c)
  BY <1>2 DEF GetKeyType, Begin, Goto, SetBusy, InUse, Ready, Waiting
<1>3. CASE ~C_Initialize(c) /\ ~GetKeyType(c)
  <2>1. UNCHANGED <<optigaLibStatus, disturbed>>
    BY <1>3, StartFrame DEF context_vars
  <2>2. chip' = chip /\ (accepted' = accepted \/ pc[c] = "idle")
        /\ \A d \in Callers \ {c} : accepted'[d] = accepted[d]
    BY <1>3 DEF Start, C_OpenSession, C_CloseSession, C_FindObjectsInit, C_FindObjectsFinal, GetValue,
                C_FindObjects, C_SignInit, C_Sign, C_GenerateRandom, InUse, Ready
  <2> QED
    BY <1>3, <2>1, <2>2, StartLeadsTo DEF Begin, Goto, Locked
<1> QED
  BY <1>1, <1>2, <1>3

LEMMA TakesMutexAnswers ==
  ASSUME Control, Answers, NEW c \in Callers, TakesMutex(c) PROVE Answers'
<1> USE DEF Control, TypeOK, ProgressTypeOK, ChipTypeOK, Answers, StatusIsAnswer, SuccessIsGenuine
<1>1. CASE Lock(c)
  BY <1>1 DEF Lock, Goto, SetBusy, Waiting
<1>2. CASE prvAddObjectToList(c)
  BY <1>2 DEF prvAddObjectToList, Return, Goto
<1> QED
  BY <1>1, <1>2 DEF TakesMutex

LEMMA ProceedAnswers ==
  ASSUME Control, Answers, NEW c \in Callers, Proceed(c) PROVE Answers'
<1> USE DEF Control, TypeOK, ProgressTypeOK, ChipTypeOK, Answers, StatusIsAnswer, SuccessIsGenuine
<1>1. CASE Accept(c)
  BY <1>1 DEF Accept, Goto
<1>2. CASE Refuse(c)
  BY <1>2 DEF Refuse, Goto
<1>3. CASE Test(c)
  BY <1>3 DEF Test, Goto
<1>4. CASE Delay(c)
  BY <1>4 DEF Delay, WriteStatus, Waiting, Goto
<1>5. CASE Check(c)
  <2>1. pc' = [pc EXCEPT ![c] = "return"] \/ pc' = [pc EXCEPT ![c] = "add"]
    BY <1>5 DEF Check, CheckOpen, CheckFind, CheckKeyType, CheckSign, CheckData, Return, Goto
  <2>2. accepted'[c] => optigaLibStatus = "success"
    BY <1>5 DEF Check
  <2> QED
    BY <1>5, <2>1, <2>2 DEF Check
<1>6. CASE Finish(c)
  BY <1>6 DEF Finish, Begin, Goto, context_vars
<1> QED
  BY <1>1, <1>2, <1>3, <1>4, <1>5, <1>6 DEF Proceed, Call

\* The chip's answer reaches the caller that waits for it, and disturbs everybody else.
LEMMA CallbackAnswers ==
  ASSUME Control, Answers, NEW i \in Instances, optiga_callback(i) PROVE Answers'
<1> USE SpecialValues
    DEF Control, TypeOK, ProgressTypeOK, ChipTypeOK, Answers, StatusIsAnswer, SuccessIsGenuine
<1>1. PICK answer \in {"success", "error"} :
        /\ WriteStatus(running[i], answer)
        /\ chip' = [c \in Callers |-> IF c = running[i] THEN answer ELSE chip[c]]
  BY DEF optiga_callback
<1>2. UNCHANGED <<pc, op, accepted>>
  BY DEF optiga_callback
<1>3. ASSUME NEW c \in Callers, c = running[i]
      PROVE  pc[c] \in {"test", "delay", "check"} /\ chip'[c] = answer /\ optigaLibStatus' = answer
  BY <1>1, <1>3 DEF WorksForWaiting, WriteStatus
<1>4. ASSUME NEW c \in Callers, c # running[i]
      PROVE  chip'[c] = chip[c] /\ (c \in Waiting => c \in disturbed') /\ (c \notin disturbed' => c \notin disturbed)
  BY <1>1, <1>4 DEF WriteStatus
<1> QED
  BY <1>2, <1>3, <1>4 DEF Waiting

LEMMA NextAnswers == Control /\ Answers /\ [Next]_vars => Answers'
<1> SUFFICES ASSUME Control, Answers, [Next]_vars PROVE Answers'
  OBVIOUS
<1>1. CASE C_Finalize
  BY <1>1 DEF C_Finalize, Quiescent, Answers, StatusIsAnswer, SuccessIsGenuine
<1>2. CASE OrphanCallback
  BY <1>2, SpecialValues
     DEF OrphanCallback, caller_vars, WriteStatus, Waiting, Answers, StatusIsAnswer, SuccessIsGenuine
<1>3. CASE UNCHANGED vars
  BY <1>3 DEF vars, context_vars, caller_vars, Answers, StatusIsAnswer, SuccessIsGenuine
<1> QED
  BY <1>1, <1>2, <1>3, StartAnswers, TakesMutexAnswers, ProceedAnswers, CallbackAnswers DEF Next

\* What the layer takes for a success is the chip's success for that very operation, unless
\* another operation has written the status meanwhile; DisturbanceExplained says when.
THEOREM SuccessCorrect == Spec => []SuccessIsGenuine
<1>1. Init => Answers
  BY DEF Init, Answers, StatusIsAnswer, SuccessIsGenuine
<1>2. Answers => SuccessIsGenuine
  BY DEF Answers
<1> QED
  BY <1>1, <1>2, InitControl, NextControl, NextAnswers, PTL DEF Spec
-----------------------------------------------------------------------------
(* The chip's answers: recursive definitions *)

RecursUpTo(f, base, step, N) == f[0] = base /\ \A n \in 1..N : f[n] = step[<<n, f[n - 1]>>]

\* A first value and a rule for the next one define a function of the numbers up to N.
LEMMA RecursionUpTo ==
  ASSUME NEW V, NEW base \in V, NEW N \in Nat, NEW step \in [Nat \X V -> V]
  PROVE  \E f \in [0..N -> V] : RecursUpTo(f, base, step, N)
<1> DEFINE next == [x \in Nat \X V |-> step[<<x[1] + 1, x[2]>>]]
<1>1. next \in [Nat \X V -> V] /\ \A n \in Nat, v \in V : next[<<n, v>>] = step[<<n + 1, v>>]
  OBVIOUS
<1> HIDE DEF next
<1>2. PICK h \in [Nat -> V] : Recurs(h, base, next)
  BY <1>1, Recursion
<1> DEFINE f == [n \in 0..N |-> h[n]]
<1>3. f \in [0..N -> V] /\ f[0] = base
  BY <1>2 DEF Recurs
<1>4. ASSUME NEW n \in 1..N PROVE f[n] = step[<<n, f[n - 1]>>]
  <2>1. n - 1 \in Nat /\ n - 1 \in 0..N /\ n \in 0..N /\ (n - 1) + 1 = n
    OBVIOUS
  <2>2. h[n] = next[<<n - 1, h[n - 1]>>] /\ h[n - 1] \in V
    BY <1>2, <2>1 DEF Recurs
  <2>3. h[n] = step[<<n, h[n - 1]>>]
    BY <1>1, <2>1, <2>2
  <2> QED
    BY <2>1, <2>3
<1> HIDE DEF f
<1> QED
  BY <1>3, <1>4 DEF RecursUpTo

\* Bytes have at least two values.
LEMMA RadixIs == Radix \in Nat /\ Radix >= 2 /\ Sign \in Nat /\ Sign < Radix /\ Radix = 2 * Sign
BY EncodingAssumption DEF Radix

Weighing(f) == f = [n \in Nat |-> IF n = 0 THEN 1 ELSE Radix * f[n - 1]]

\* The weights of digits, from the right.
LEMMA WeightIs ==
  /\ Weight[0] = 1
  /\ \A n \in Nat : /\ Weight[n] \in Nat /\ Weight[n] > n
                    /\ Weight[n + 1] = Radix * Weight[n] /\ Weight[n + 1] >= 2 * Weight[n]
<1>1. Radix \in Int /\ Radix \in Nat /\ Radix >= 2
  BY RadixIs
<1> DEFINE w == [n \in Nat |-> Power(Radix, n)]
<1>2. Power(Radix, 0) = 1 /\ \A n \in Nat : Power(Radix, n + 1) = Radix * Power(Radix, n)
  BY <1>1, PowerRule
<1>3. Weighing(w)
  <2>1. ASSUME NEW n \in Nat PROVE w[n] = IF n = 0 THEN 1 ELSE Radix * w[n - 1]
    <3>1. CASE n = 0
      BY <1>2, <3>1
    <3>2. CASE n # 0
      <4>1. n - 1 \in Nat /\ (n - 1) + 1 = n
        BY <3>2
      <4>2. Power(Radix, (n - 1) + 1) = Radix * Power(Radix, n - 1)
        BY <1>2, <4>1
      <4> QED
        BY <3>2, <4>1, <4>2
    <3> QED
      BY <3>1, <3>2
  <2>2. w = [n \in Nat |-> w[n]]
    OBVIOUS
  <2> HIDE DEF w
  <2> QED
    BY <2>1, <2>2 DEF Weighing
<1> HIDE DEF w
<1>4. Weighing(Weight)
  BY <1>3 DEF Weight, Weighing
<1>5. Weight[0] = 1
  BY <1>4 DEF Weighing
<1>6. ASSUME NEW n \in Nat PROVE Weight[n + 1] = Radix * Weight[n]
  <2>1. n + 1 \in Nat /\ n + 1 # 0 /\ (n + 1) - 1 = n
    OBVIOUS
  <2> QED
    BY <1>4, <2>1 DEF Weighing
<1> DEFINE S == {n \in Nat : Weight[n] \in Nat /\ Weight[n] > n}
<1>7. ASSUME NEW n \in Nat, Weight[n] \in Nat PROVE Radix * Weight[n] \in Nat /\ Radix * Weight[n] >= 2 * Weight[n]
  <2> DEFINE x == Weight[n]
             k == Radix - 2
  <2>1. x \in Nat /\ k \in Nat /\ Radix = k + 2
    BY <1>1, <1>7
  <2> HIDE DEF x, k
  <2>2. (k + 2) * x = k * x + 2 * x /\ k * x \in Nat
    BY <2>1
  <2>3. Radix * x \in Nat /\ Radix * x >= 2 * x
    BY <2>1, <2>2
  <2> QED
    BY <2>3 DEF x
<1>8. \A n \in Nat : n \in S
  <2>1. 0 \in S
    BY <1>5
  <2>2. \A n \in Nat : n \in S => n + 1 \in S
    BY <1>6, <1>7
  <2> HIDE DEF S
  <2> QED
    BY <2>1, <2>2, Induction
<1> QED
  BY <1>5, <1>6, <1>7, <1>8

\* More digits weigh more.
LEMMA WeightGrows ==
  ASSUME NEW m \in Nat, NEW n \in Nat, m <= n
  PROVE  Weight[m] <= Weight[n]
<1> DEFINE S == {k \in Nat : Weight[m] <= Weight[m + k]}
<1>1. 0 \in S
  BY WeightIs
<1>2. ASSUME NEW k \in Nat, k \in S PROVE k + 1 \in S
  <2>1. Weight[m + k] \in Nat /\ Weight[m] \in Nat /\ Weight[(m + k) + 1] \in Nat /\ Weight[(m + k) + 1] >= 2 * Weight[m + k]
    <3>1. m + k \in Nat /\ (m + k) + 1 \in Nat
      OBVIOUS
    <3> QED
      BY <3>1, WeightIs
  <2>2. (m + k) + 1 = m + (k + 1)
    OBVIOUS
  <2> QED
    BY <1>2, <2>1, <2>2
<1>3. n - m \in Nat /\ m + (n - m) = n
  OBVIOUS
<1>4. n - m \in S
  <2> HIDE DEF S
  <2> QED
    BY <1>1, <1>2, <1>3, Induction
<1> QED
  BY <1>3, <1>4

\* The digits a positive number needs.
LEMMA SizeIs ==
  ASSUME NEW n \in Nat \ {0}
  PROVE  Size(n) \in 1..n /\ Weight[Size(n) - 1] <= n /\ n < Weight[Size(n)]
<1> DEFINE S == {k \in Nat : n < Weight[k]}
<1>1. n \in S
  BY WeightIs
<1>2. PICK k \in S : \A m \in S : k <= m
  BY <1>1, LeastNumber
<1>3. k # 0 /\ k <= n
  BY <1>1, <1>2, WeightIs
<1>4. k \in 1..n /\ k - 1 \in Nat /\ k - 1 \notin S
  BY <1>2, <1>3
<1>5. Weight[k - 1] <= n /\ n < Weight[k]
  BY <1>2, <1>4, WeightIs
<1> QED
  BY <1>4, <1>5 DEF Size

Counting(bytes, f) ==
  f = [n \in 0..Len(bytes) |-> IF n = 0 THEN 0 ELSE f[n - 1] * Radix + bytes[n]]

\* The number of the first n bytes, for each n.
Counts(bytes, f) ==
  /\ f[0] = 0 /\ \A n \in 0..Len(bytes) : f[n] \in Nat
  /\ \A n \in 0..(Len(bytes) - 1) : f[n + 1] = f[n] * Radix + bytes[n + 1]

\* Number() is the last value of its recursion.
LEMMA NumberIs ==
  ASSUME NEW bytes \in Seq(Nat)
  PROVE  \E f : Counts(bytes, f) /\ Number(bytes) = f[Len(bytes)]
<1> DEFINE L == Len(bytes)
           number == CHOOSE f : Counting(bytes, f)
<1>1. Radix \in Nat /\ L \in Nat /\ \A n \in 1..L : bytes[n] \in Nat
  BY RadixIs
<1> HIDE DEF L
<1>2. \E f : Counting(bytes, f)
  <2> DEFINE step == [x \in Nat \X Nat |-> IF x[1] \in 1..L THEN x[2] * Radix + bytes[x[1]] ELSE 0]
             V == Nat
             zero == 0
  <2>1. ASSUME NEW n \in Nat, NEW v \in Nat PROVE step[<<n, v>>] \in Nat
    <3>1. v * Radix \in Nat
      BY <1>1
    <3> QED
      BY <1>1, <3>1
  <2>2. \A n \in 1..L, v \in Nat : step[<<n, v>>] = v * Radix + bytes[n]
    BY <1>1
  <2>3. step \in [Nat \X V -> V] /\ zero \in V
    <3>1. step = [x \in Nat \X Nat |-> step[x]]
      OBVIOUS
    <3> HIDE DEF step
    <3>2. \A x \in Nat \X Nat : step[x] \in Nat
      BY <2>1
    <3> QED
      BY <3>1, <3>2
  <2> HIDE DEF step, V, zero
  <2>4. PICK f \in [0..L -> V] : RecursUpTo(f, zero, step, L)
    BY <1>1, <2>3, RecursionUpTo
  <2>5. ASSUME NEW n \in 0..L PROVE f[n] = IF n = 0 THEN 0 ELSE f[n - 1] * Radix + bytes[n]
    <3>1. CASE n = 0
      BY <2>4, <3>1 DEF zero, RecursUpTo
    <3>2. CASE n # 0
      <4>1. n \in 1..L /\ n - 1 \in 0..L
        BY <1>1, <3>2
      <4>2. f[n - 1] \in Nat
        BY <4>1 DEF V
      <4> QED
        BY <2>2, <2>4, <3>2, <4>1, <4>2 DEF RecursUpTo
    <3> QED
      BY <3>1, <3>2
  <2>6. f = [n \in 0..L |-> IF n = 0 THEN 0 ELSE f[n - 1] * Radix + bytes[n]]
    <3>1. f = [n \in 0..L |-> f[n]]
      OBVIOUS
    <3> QED
      BY <2>5, <3>1
  <2> QED
    BY <2>6, Zenon DEF Counting, L
<1>3. Counting(bytes, number)
  BY <1>2
<1>4. Number(bytes) = number[L]
  BY DEF Number, Counting, L
<1> HIDE DEF number
<1>5. \A n \in 0..L : number[n] = IF n = 0 THEN 0 ELSE number[n - 1] * Radix + bytes[n]
  <2>1. number = [n \in 0..L |-> IF n = 0 THEN 0 ELSE number[n - 1] * Radix + bytes[n]]
    BY <1>3, Zenon DEF Counting, L
  <2> QED
    BY <2>1, Zenon
<1>6. number[0] = 0
  BY <1>1, <1>5
<1>7. ASSUME NEW n \in 0..(L - 1) PROVE number[n + 1] = number[n] * Radix + bytes[n + 1]
  <2>1. n + 1 \in 0..L /\ n + 1 # 0 /\ (n + 1) - 1 = n
    BY <1>1
  <2> QED
    BY <1>5, <2>1
<1> DEFINE S == {n \in Nat : n <= L => number[n] \in Nat}
<1>8. ASSUME NEW n \in Nat, n \in S PROVE n + 1 \in S
  <2> SUFFICES ASSUME n + 1 <= L PROVE number[n + 1] \in Nat
    OBVIOUS
  <2>1. n \in 0..(L - 1) /\ n + 1 \in 1..L /\ number[n] \in Nat
    BY <1>1, <1>8
  <2>2. bytes[n + 1] \in Nat /\ number[n] * Radix \in Nat
    BY <1>1, <2>1
  <2> QED
    BY <1>7, <2>1, <2>2
<1>9. \A n \in 0..L : number[n] \in Nat
  <2>1. 0 \in S
    BY <1>6
  <2> HIDE DEF S
  <2>2. \A n \in Nat : n \in S
    BY <1>8, <2>1, Induction
  <2> QED
    BY <1>1, <2>2 DEF S
<1> QED
  BY <1>4, <1>6, <1>7, <1>9 DEF Counts, L

-----------------------------------------------------------------------------
(* The chip's answers: parts of sequences *)

\* u is s, of m numbers, followed by t, of n numbers.
IsJoined(u, s, t, m, n) ==
  /\ u \in Seq(Nat) /\ Len(u) = m + n
  /\ \A i \in 1..m : u[i] = s[i]
  /\ \A i \in 1..n : u[m + i] = t[i]

\* One sequence after another.
LEMMA JoinedIs ==
  ASSUME NEW s \in Seq(Nat), NEW t \in Seq(Nat), NEW m \in Nat, NEW n \in Nat, Len(s) = m, Len(t) = n,
         NEW u, u = s \o t
  PROVE  IsJoined(u, s, t, m, n)
<1>1. u \in Seq(Nat) /\ Len(u) = m + n
  OBVIOUS
<1>2. \A i \in 1..m : u[i] = s[i]
  OBVIOUS
<1>3. \A i \in 1..n : u[m + i] = t[i]
  OBVIOUS
<1> QED
  BY <1>1, <1>2, <1>3 DEF IsJoined

\* p is what s holds from a + 1 to a + l.
IsPart(p, s, a, l) == p \in Seq(Nat) /\ Len(p) = l /\ \A k \in 1..l : p[k] = s[a + k]

\* An element of a part.
LEMMA PartElement ==
  ASSUME NEW s \in Seq(Nat), NEW c \in Nat \ {0}, NEW b \in Nat, b <= Len(s), NEW k \in Nat \ {0}, k <= b - c + 1
  PROVE  SubSeq(s, c, b)[k] = s[c + k - 1]
OBVIOUS

\* A part of a sequence.
LEMMA PartIs ==
  ASSUME NEW s \in Seq(Nat), NEW a \in Nat, NEW l \in Nat, a + l <= Len(s),
         NEW c, c = a + 1, NEW b, b = a + l, NEW p, p = SubSeq(s, c, b)
  PROVE  IsPart(p, s, a, l)
<1>1. c \in Nat /\ b \in Nat /\ b - c + 1 = l /\ c <= b + 1 /\ b <= Len(s)
  OBVIOUS
<1>2. p \in Seq(Nat) /\ Len(p) = l
  BY <1>1
<1>3. ASSUME NEW k \in 1..l PROVE p[k] = s[a + k]
  <2>1. k \in Nat \ {0} /\ k <= b - c + 1 /\ c + k - 1 = a + k /\ c \in Nat \ {0}
    BY <1>1
  <2>2. SubSeq(s, c, b)[k] = s[c + k - 1]
    BY <1>1, <2>1, PartElement
  <2> QED
    BY <2>1, <2>2
<1> QED
  BY <1>2, <1>3 DEF IsPart

\* Parts with the same elements are the same.
LEMMA SameParts ==
  ASSUME NEW p, NEW s, NEW a, NEW q, NEW t, NEW b, NEW l \in Nat, IsPart(p, s, a, l), IsPart(q, t, b, l),
         \A k \in 1..l : s[a + k] = t[b + k]
  PROVE  p = q
<1>1. /\ p \in Seq(Nat) /\ q \in Seq(Nat) /\ Len(p) = l /\ Len(q) = l
      /\ \A k \in 1..l : p[k] = q[k]
  BY DEF IsPart
<1> QED
  BY <1>1, SameSequence

\* Zeros.
LEMMA ZerosAre ==
  ASSUME NEW k \in Nat
  PROVE  Zeros(k) \in Seq(Nat) /\ Len(Zeros(k)) = k /\ \A i \in 1..k : Zeros(k)[i] = 0
BY DEF Zeros

\* The first l numbers of rs, of n, are x and the others y.
Splits(rs, n, l, x, y) == Len(rs) = n /\ SubSeq(rs, 1, l) = x /\ SubSeq(rs, l + 1, n) = y

\* Two sequences of the same length, put together and taken apart.
LEMMA Halves ==
  ASSUME NEW l \in Nat, NEW x \in Seq(Nat), NEW y \in Seq(Nat), Len(x) = l, Len(y) = l,
         NEW rs, rs = x \o y, NEW n, n = 2 * l
  PROVE  Splits(rs, n, l, x, y)
<1> DEFINE p == SubSeq(rs, 1, l)
           q == SubSeq(rs, l + 1, n)
<1>1. IsJoined(rs, x, y, l, l)
  BY JoinedIs
<1>2. n \in Nat /\ n = l + l /\ Len(rs) = n /\ rs \in Seq(Nat)
  BY <1>1 DEF IsJoined
<1>3. IsPart(p, rs, 0, l)
  <2>1. 0 \in Nat /\ 0 + l <= Len(rs) /\ 1 = 0 + 1 /\ l = 0 + l
    BY <1>2
  <2>2. p = SubSeq(rs, 1, l)
    OBVIOUS
  <2> HIDE DEF p
  <2> QED
    BY <1>2, <2>1, <2>2, PartIs
<1>4. IsPart(q, rs, l, l)
  <2>1. l + l <= Len(rs)
    BY <1>2
  <2>2. q = SubSeq(rs, l + 1, n)
    OBVIOUS
  <2> HIDE DEF q
  <2> QED
    BY <1>2, <2>1, <2>2, PartIs
<1> HIDE DEF p, q
<1>5. p = x
  <2>1. p \in Seq(Nat) /\ Len(p) = Len(x)
    BY <1>3 DEF IsPart
  <2>2. ASSUME NEW k \in 1..l PROVE p[k] = x[k]
    <3>1. p[k] = rs[0 + k] /\ 0 + k = k
      BY <1>3 DEF IsPart
    <3>2. rs[k] = x[k]
      BY <1>1 DEF IsJoined
    <3> QED
      BY <3>1, <3>2
  <2> QED
    BY <2>1, <2>2, SameSequence
<1>6. q = y
  <2>1. q \in Seq(Nat) /\ Len(q) = Len(y) /\ \A k \in 1..Len(q) : q[k] = y[k]
    BY <1>1, <1>4 DEF IsPart, IsJoined
  <2> QED
    BY <2>1, SameSequence
<1> QED
  BY <1>2, <1>5, <1>6 DEF p, q, Splits

-----------------------------------------------------------------------------
(* The chip's answers: strings that are accepted *)

\* Zeros in front do not change the number.
LEMMA LeadingZeros ==
  ASSUME NEW bytes \in Seq(Nat), NEW k \in Nat
  PROVE  Number(Zeros(k) \o bytes) = Number(bytes)
<1> DEFINE z == Zeros(k)
           all == z \o bytes
           L == Len(bytes)
<1>1. z \in Seq(Nat) /\ Len(z) = k /\ (\A i \in 1..k : z[i] = 0) /\ L \in Nat /\ Len(bytes) = L /\ all = z \o bytes
  BY ZerosAre
<1> HIDE DEF z, all, L
<1>2. IsJoined(all, z, bytes, k, L)
  BY <1>1, JoinedIs
<1>3. PICK f : Counts(all, f) /\ Number(all) = f[k + L]
  BY <1>2, NumberIs DEF IsJoined
<1>4. PICK g : Counts(bytes, g) /\ Number(bytes) = g[L]
  BY <1>1, NumberIs
<1>5. /\ f[0] = 0 /\ \A n \in 0..(k + L) : f[n] \in Nat
      /\ \A n \in 0..(k + L - 1) : f[n + 1] = f[n] * Radix + all[n + 1]
  <2>1. Len(all) = k + L
    BY <1>2 DEF IsJoined
  <2> QED
    BY <1>1, <1>3, <2>1 DEF Counts
<1>6. g[0] = 0 /\ \A n \in 0..(L - 1) : g[n + 1] = g[n] * Radix + bytes[n + 1]
  BY <1>1, <1>4 DEF Counts
<1> DEFINE S == {j \in Nat : j <= k => f[j] = 0}
           T == {j \in Nat : j <= L => f[k + j] = g[j]}
<1>7. ASSUME NEW j \in Nat, j \in S PROVE j + 1 \in S
  <2> SUFFICES ASSUME j + 1 <= k PROVE f[j + 1] = 0
    OBVIOUS
  <2>1. j \in 0..(k + L - 1) /\ j + 1 \in 1..k /\ f[j] = 0
    BY <1>1, <1>7
  <2>a. all[j + 1] = 0
    BY <1>1, <1>2, <2>1 DEF IsJoined
  <2>2. f[j + 1] = 0 * Radix + 0
    BY <1>5, <2>1, <2>a
  <2> QED
    BY <2>2, RadixIs
<1>8. k \in S
  <2>1. 0 \in S
    BY <1>5
  <2> HIDE DEF S
  <2> QED
    BY <1>7, <2>1, Induction
<1>9. ASSUME NEW j \in Nat, j \in T PROVE j + 1 \in T
  <2> SUFFICES ASSUME j + 1 <= L PROVE f[k + (j + 1)] = g[j + 1]
    OBVIOUS
  <2>1. k + j \in 0..(k + L - 1) /\ j \in 0..(L - 1) /\ j + 1 \in 1..L /\ f[k + j] = g[j]
    BY <1>1, <1>9
  <2>2. (k + j) + 1 = k + (j + 1)
    OBVIOUS
  <2>3. f[k + (j + 1)] = f[k + j] * Radix + all[k + (j + 1)]
    BY <1>5, <2>1, <2>2
  <2>4. all[k + (j + 1)] = bytes[j + 1]
    BY <1>2, <2>1 DEF IsJoined
  <2> QED
    BY <1>6, <2>1, <2>3, <2>4
<1>10. L \in T
  <2>1. 0 \in T
    BY <1>6, <1>8
  <2> HIDE DEF T
  <2> QED
    BY <1>1, <1>9, <2>1, Induction
<1> QED
  BY <1>3, <1>4, <1>10 DEF all, z

\* What the decoder accepts: an integer that is there in full, of which it gives out the value.
Accepts(asn1, len, out, d) ==
  LET i == asn1[2]
  IN  /\ len >= 3 /\ asn1[1] = DER_TAG_INTEGER /\ i \in Nat \ {0} /\ i + 2 <= len
      /\ d.consumed = i + 2 /\ d.bytes \in Seq(Nat) /\ Len(d.bytes) = out
      /\ Number(d.bytes) = Number(SubSeq(asn1, 3, i + 2))

\* A stuffing zero and the bytes behind it have the same value as these bytes.
LEMMA StuffingDropped ==
  ASSUME NEW asn1 \in Seq(Nat), NEW i \in Nat, i > 0, i + 2 <= Len(asn1), asn1[3] = 0
  PROVE  Number(SubSeq(asn1, 4, i + 2)) = Number(SubSeq(asn1, 3, i + 2))
<1> DEFINE b == i + 2
           size == i - 1
           value == SubSeq(asn1, 4, b)
           whole == SubSeq(asn1, 3, b)
           z == Zeros(1)
           s == z \o value
<1>1. b \in Nat /\ size \in Nat /\ 3 + size = b /\ 2 + i = b /\ 3 + 1 = 4 /\ 2 + 1 = 3 /\ b <= Len(asn1) /\ 1 + size = i
  OBVIOUS
<1>2. value = SubSeq(asn1, 4, b) /\ whole = SubSeq(asn1, 3, b) /\ s = z \o value
  OBVIOUS
<1>3. z \in Seq(Nat) /\ Len(z) = 1 /\ z[1] = 0
  <2>1. 1 \in Nat /\ 1 \in 1..1
    OBVIOUS
  <2> QED
    BY <2>1, ZerosAre
<1> HIDE DEF b, size, value, whole, z, s
<1>4. IsPart(value, asn1, 3, size)
  BY <1>1, <1>2, PartIs
<1>5. IsPart(whole, asn1, 2, i)
  BY <1>1, <1>2, PartIs
<1>6. IsJoined(s, z, value, 1, size)
  BY <1>1, <1>2, <1>3, <1>4, JoinedIs DEF IsPart
<1>7. ASSUME NEW j \in 1..i PROVE whole[j] = s[j]
  <2>0. whole[j] = asn1[2 + j]
    BY <1>5 DEF IsPart
  <2>1. CASE j = 1
    <3>1. s[1] = 0 /\ asn1[2 + 1] = 0
      BY <1>1, <1>3, <1>6 DEF IsJoined
    <3> QED
      BY <2>0, <2>1, <3>1
  <2>2. CASE j # 1
    <3>1. j - 1 \in 1..size /\ 1 + (j - 1) = j /\ 3 + (j - 1) = 2 + j
      BY <1>1, <2>2
    <3>2. s[1 + (j - 1)] = value[j - 1]
      BY <1>6, <3>1 DEF IsJoined
    <3>3. value[j - 1] = asn1[3 + (j - 1)]
      BY <1>4, <3>1 DEF IsPart
    <3> QED
      BY <2>0, <3>1, <3>2, <3>3
  <2> QED
    BY <2>1, <2>2
<1>8. whole = s
  <2>1. whole \in Seq(Nat) /\ s \in Seq(Nat) /\ Len(whole) = i /\ Len(s) = i
    BY <1>1, <1>5, <1>6 DEF IsPart, IsJoined
  <2> QED
    BY <1>7, <2>1, SameSequence
<1>9. Number(z \o value) = Number(value)
  <2>1. value \in Seq(Nat)
    BY <1>4 DEF IsPart
  <2> QED
    BY <2>1, LeadingZeros DEF z
<1> QED
  BY <1>2, <1>8, <1>9 DEF value, whole, b

\* What the decoder does not refuse it accepts.
LEMMA DecodedIs ==
  ASSUME NEW asn1 \in Seq(Nat), NEW len \in Nat, len <= Len(asn1), NEW out \in Nat,
         NEW d, d = prvDecodeAsn1Uint(asn1, len, out), d # Rejected
  PROVE  Accepts(asn1, len, out, d)
<1> DEFINE i == asn1[2]
           first == IF Stuffed(asn1) THEN 4 ELSE 3
           size == i + 3 - first
           b == first + size - 1
           value == SubSeq(asn1, first, b)
           k == out - size
           z == Zeros(k)
<1>1. d = IF len < 3 \/ asn1[1] # DER_TAG_INTEGER \/ i = 0 \/ i + 2 > len THEN Rejected
          ELSE IF size > out THEN Rejected
          ELSE [consumed |-> i + 2, bytes |-> z \o value]
  BY Zenon DEF prvDecodeAsn1Uint, CutOff
<1>2. first \in {3, 4} /\ (first = 4 => i > 2 /\ asn1[3] = 0)
  BY DEF Stuffed
<1>3. size = i + 3 - first /\ b = first + size - 1 /\ k = out - size
  OBVIOUS
<1>4. value = SubSeq(asn1, first, b)
  OBVIOUS
<1> HIDE DEF value, b, size, first, z, k
<1>5. /\ len >= 3 /\ asn1[1] = DER_TAG_INTEGER /\ i # 0 /\ ~(i + 2 > len) /\ ~(size > out)
      /\ d = [consumed |-> i + 2, bytes |-> z \o value]
  BY <1>1
<1>6. i \in Nat
  <2>1. 2 \in 1..Len(asn1) /\ Len(asn1) \in Nat
    BY <1>5
  <2> QED
    BY <2>1
<1>7. i = asn1[2]
  OBVIOUS
<1> HIDE DEF i
<1>8. i > 0 /\ i + 2 <= len /\ i + 2 <= Len(asn1)
  BY <1>5, <1>6
<1>9. size \in Nat /\ b = i + 2 /\ k \in Nat /\ k + size = out
  BY <1>2, <1>3, <1>5, <1>6
<1>10. value \in Seq(Nat) /\ Len(value) = size
  <2> DEFINE a == first - 1
  <2>1. a \in Nat /\ first = a + 1 /\ b = a + size /\ a + size <= Len(asn1)
    BY <1>2, <1>3, <1>6, <1>8, <1>9
  <2> HIDE DEF a
  <2>2. IsPart(value, asn1, a, size)
    BY <1>4, <1>9, <2>1, PartIs
  <2> QED
    BY <2>2 DEF IsPart
<1>11. Number(value) = Number(SubSeq(asn1, 3, i + 2))
  <2>1. CASE first = 3
    BY <1>4, <1>9, <2>1
  <2>2. CASE first = 4
    BY <1>2, <1>4, <1>6, <1>8, <1>9, <2>2, StuffingDropped
  <2> QED
    BY <1>2, <2>1, <2>2
<1>12. d.consumed = i + 2 /\ d.bytes = z \o value
  BY <1>5
<1>13. d.bytes \in Seq(Nat) /\ Len(d.bytes) = out
  <2>1. z \in Seq(Nat) /\ Len(z) = k
    BY <1>9, ZerosAre DEF z
  <2>2. IsJoined(d.bytes, z, value, k, size)
    BY <1>9, <1>10, <1>12, <2>1, JoinedIs
  <2> QED
    BY <1>9, <2>2 DEF IsJoined
<1>14. Number(d.bytes) = Number(value)
  BY <1>9, <1>10, <1>12, LeadingZeros DEF z
<1> QED
  BY <1>5, <1>6, <1>7, <1>8, <1>11, <1>12, <1>13, <1>14 DEF Accepts

\* A string that is accepted begins with two integers.
LEMMA AcceptedStringsWhole == AcceptedIsWhole
<1> SUFFICES ASSUME NEW asn1 \in Strings, NEW length \in Lengths, NEW asn1_len \in 0..Len(asn1),
                    prvAsn1ToEcdsaRS(asn1 \o Zeros(4), asn1_len, 2 * length).ok
             PROVE  LET result == prvAsn1ToEcdsaRS(asn1 \o Zeros(4), asn1_len, 2 * length)
                        i      == asn1[2]
                        j      == asn1[i + 4]
                    IN  /\ asn1[1] = DER_TAG_INTEGER /\ asn1[i + 3] = DER_TAG_INTEGER
                        /\ i > 0 /\ j > 0 /\ i + j + 4 <= asn1_len
                        /\ Len(result.rs) = 2 * length
                        /\ Number(SubSeq(result.rs, 1, length)) = Number(SubSeq(asn1, 3, i + 2))
                        /\ Number(SubSeq(result.rs, length + 1, 2 * length))
                             = Number(SubSeq(asn1, i + 5, i + j + 4))
  BY DEF AcceptedIsWhole
<1> DEFINE z == Zeros(4)
           buffer == asn1 \o z
           n == Len(asn1)
           m == n + 4
           i == asn1[2]
           j == asn1[i + 4]
           r == prvDecodeAsn1Uint(buffer, asn1_len, length)
           second == SubSeq(buffer, r.consumed + 1, Len(buffer))
           s == prvDecodeAsn1Uint(second, asn1_len - r.consumed, length)
           result == prvAsn1ToEcdsaRS(buffer, asn1_len, 2 * length)
<1>1. asn1 \in Seq(Nat) /\ length \in Nat /\ n \in Nat /\ asn1_len \in Nat /\ asn1_len <= n /\ m \in Nat
  BY EncodingAssumption
<1>2. (2 * length) \div 2 = length
  BY <1>1
<1>3. r # Rejected /\ s # Rejected /\ result = [ok |-> TRUE, rs |-> r.bytes \o s.bytes]
  BY <1>2 DEF prvAsn1ToEcdsaRS
<1>4. r = prvDecodeAsn1Uint(buffer, asn1_len, length) /\ buffer = asn1 \o z /\ n = Len(asn1) /\ m = n + 4
      /\ s = prvDecodeAsn1Uint(second, asn1_len - r.consumed, length)
  OBVIOUS
<1>5. second = SubSeq(buffer, r.consumed + 1, Len(buffer))
  OBVIOUS
<1>6. z \in Seq(Nat) /\ Len(z) = 4
  BY ZerosAre
<1> HIDE DEF result, s, second, r, buffer, z, n, m
<1>7. IsJoined(buffer, asn1, z, n, 4)
  BY <1>1, <1>4, <1>6, JoinedIs
<1>8. buffer \in Seq(Nat) /\ Len(buffer) = m /\ \A k \in 1..n : buffer[k] = asn1[k]
  BY <1>4, <1>7 DEF IsJoined
<1>9. Accepts(buffer, asn1_len, length, r)
  <2>1. asn1_len <= Len(buffer)
    BY <1>1, <1>4, <1>8
  <2> QED
    BY <1>1, <1>3, <1>4, <1>8, <2>1, DecodedIs
<1>10. i = buffer[2] /\ asn1[1] = buffer[1] /\ asn1_len >= 3
  <2>1. asn1_len >= 3
    BY <1>9 DEF Accepts
  <2>2. 1 \in 1..n /\ 2 \in 1..n
    BY <1>1, <2>1
  <2> QED
    BY <1>8, <2>1, <2>2
<1>11. /\ asn1[1] = DER_TAG_INTEGER /\ i \in Nat \ {0} /\ i + 2 <= asn1_len /\ r.consumed = i + 2
       /\ r.bytes \in Seq(Nat) /\ Len(r.bytes) = length
       /\ Number(r.bytes) = Number(SubSeq(buffer, 3, i + 2))
  BY <1>9, <1>10 DEF Accepts
<1> DEFINE a == i + 2
           rest == asn1_len - a
           l == m - a
<1>12. a = i + 2 /\ rest = asn1_len - a /\ l = m - a /\ j = asn1[i + 4]
  OBVIOUS
<1>13. r.consumed = a
  BY <1>11
<1> HIDE DEF i, j, a, rest, l
<1>14. a \in Nat /\ rest \in Nat /\ l \in Nat /\ rest <= l /\ a + l = m /\ i \in Nat /\ i > 0
  <2>1. i \in Nat /\ i > 0 /\ i + 2 <= asn1_len
    BY <1>11
  <2>2. asn1_len \in Nat /\ asn1_len <= n /\ n \in Nat /\ m = n + 4
    BY <1>1, <1>4
  <2>3. a = i + 2 /\ rest = asn1_len - a /\ l = m - a
    BY <1>12
  <2> QED
    BY ONLY <2>1, <2>2, <2>3
<1>15. IsPart(second, buffer, a, l)
  <2>1. second = SubSeq(buffer, a + 1, m) /\ m = a + l /\ a + l <= Len(buffer)
    BY <1>5, <1>8, <1>13, <1>14
  <2> QED
    BY <1>8, <1>14, <2>1, PartIs
<1>16. Accepts(second, rest, length, s)
  <2>1. s = prvDecodeAsn1Uint(second, rest, length)
    BY <1>4, <1>12, <1>13
  <2>2. second \in Seq(Nat) /\ rest <= Len(second)
    BY <1>14, <1>15 DEF IsPart
  <2> QED
    BY <1>1, <1>3, <1>14, <2>1, <2>2, DecodedIs
<1>17. rest >= 3
  BY <1>16 DEF Accepts
<1>18. second[1] = asn1[i + 3] /\ second[2] = j
  <2>1. 1 \in 1..l /\ 2 \in 1..l /\ i + 3 \in 1..n /\ i + 4 \in 1..n /\ a + 1 = i + 3 /\ a + 2 = i + 4
    BY <1>1, <1>4, <1>12, <1>14, <1>17
  <2>2. second[1] = buffer[i + 3] /\ second[2] = buffer[i + 4]
    BY <1>15, <2>1 DEF IsPart
  <2> QED
    BY <1>8, <1>12, <2>1, <2>2
<1>19. /\ asn1[i + 3] = DER_TAG_INTEGER /\ j \in Nat \ {0} /\ j + 2 <= rest
       /\ s.bytes \in Seq(Nat) /\ Len(s.bytes) = length
       /\ Number(s.bytes) = Number(SubSeq(second, 3, j + 2))
  BY <1>16, <1>18 DEF Accepts
<1>20. j \in Nat /\ j > 0 /\ i + j + 4 <= asn1_len
  <2>1. j \in Nat /\ j > 0 /\ j + 2 <= asn1_len - a
    BY <1>12, <1>19
  <2>2. asn1_len \in Nat /\ i \in Nat /\ a = i + 2
    BY <1>1, <1>12, <1>14
  <2> QED
    BY ONLY <2>1, <2>2
<1>21. SubSeq(buffer, 3, i + 2) = SubSeq(asn1, 3, i + 2)
  <2> DEFINE p == SubSeq(buffer, 3, a)
             q == SubSeq(asn1, 3, a)
  <2>1. p = SubSeq(buffer, 3, a) /\ q = SubSeq(asn1, 3, a)
    OBVIOUS
  <2> HIDE DEF p, q
  <2>2. 2 + i = a /\ 3 = 2 + 1 /\ a <= Len(buffer) /\ a <= Len(asn1)
    BY <1>1, <1>4, <1>8, <1>12, <1>14
  <2>3. IsPart(p, buffer, 2, i)
    BY <1>8, <1>14, <2>1, <2>2, PartIs
  <2>4. IsPart(q, asn1, 2, i)
    BY <1>1, <1>14, <2>1, <2>2, PartIs
  <2>5. \A k \in 1..i : buffer[2 + k] = asn1[2 + k]
    <3>1. \A k \in 1..i : 2 + k \in 1..n
      BY <1>1, <1>4, <1>14, <2>2
    <3> QED
      BY <1>8, <3>1
  <2>6. p = q
    BY <1>14, <2>3, <2>4, <2>5, SameParts
  <2> QED
    BY <1>12, <2>1, <2>6
<1>22. SubSeq(second, 3, j + 2) = SubSeq(asn1, i + 5, i + j + 4)
  <2> DEFINE p == SubSeq(second, 3, j + 2)
             q == SubSeq(asn1, i + 5, i + j + 4)
             e == a + 2
  <2>1. p = SubSeq(second, 3, j + 2) /\ q = SubSeq(asn1, i + 5, i + j + 4) /\ e = a + 2
    OBVIOUS
  <2> HIDE DEF p, q, e
  <2>2. e \in Nat /\ j \in Nat /\ 3 = 2 + 1 /\ j + 2 = 2 + j /\ 2 + j <= l /\ i + 5 = e + 1 /\ i + j + 4 = e + j /\ e + j <= n
    <3>1. j \in Nat /\ j + 2 <= rest /\ rest <= l /\ l \in Nat /\ rest \in Nat
      BY <1>14, <1>19, <1>20
    <3>2. i \in Nat /\ a = i + 2 /\ e = a + 2 /\ i + j + 4 <= asn1_len /\ asn1_len <= n /\ n \in Nat /\ asn1_len \in Nat
      BY <1>1, <1>12, <1>14, <1>20, <2>1
    <3> QED
      BY ONLY <3>1, <3>2
  <2>3. IsPart(p, second, 2, j)
    <3>1. second \in Seq(Nat) /\ 2 + j <= Len(second)
      BY <1>15, <2>2 DEF IsPart
    <3> QED
      BY <2>1, <2>2, <3>1, PartIs
  <2>4. IsPart(q, asn1, e, j)
    BY <1>1, <1>4, <2>1, <2>2, PartIs
  <2>5. ASSUME NEW k \in 1..j PROVE second[2 + k] = asn1[e + k]
    <3>1. 2 + k \in 1..l /\ e + k \in 1..n /\ a + (2 + k) = e + k
      BY <1>1, <1>14, <2>1, <2>2
    <3>2. second[2 + k] = buffer[e + k]
      BY <1>15, <3>1 DEF IsPart
    <3> QED
      BY <1>8, <3>1, <3>2
  <2>6. p = q
    BY <2>2, <2>3, <2>4, <2>5, SameParts
  <2> QED
    BY <2>1, <2>6
<1>23. LET rs == r.bytes \o s.bytes
       IN  /\ Len(rs) = 2 * length /\ SubSeq(rs, 1, length) = r.bytes
           /\ SubSeq(rs, length + 1, 2 * length) = s.bytes
  <2> DEFINE x == r.bytes
             y == s.bytes
             rs == x \o y
             h == 2 * length
  <2>1. x \in Seq(Nat) /\ y \in Seq(Nat) /\ Len(x) = length /\ Len(y) = length /\ length \in Nat
        /\ rs = x \o y /\ h = 2 * length
    BY <1>1, <1>11, <1>19
  <2> HIDE DEF x, y, rs, h
  <2>2. Splits(rs, h, length, x, y)
    BY <2>1, Halves
  <2> QED
    BY <2>2 DEF Splits, x, y, rs, h
<1>24. result.rs = r.bytes \o s.bytes
  BY <1>3
<1>25. Number(r.bytes) = Number(SubSeq(asn1, 3, i + 2)) /\ Number(s.bytes) = Number(SubSeq(asn1, i + 5, i + j + 4))
  BY <1>11, <1>19, <1>21, <1>22
<1> QED
  BY <1>11, <1>14, <1>19, <1>20, <1>23, <1>24, <1>25 DEF result, buffer, z, i, j

-----------------------------------------------------------------------------
(* The chip's answers: signatures *)

\* The digits of a number.
LEMMA BytesAre ==
  ASSUME NEW n \in Nat, NEW l \in Nat
  PROVE  /\ Bytes(n, l) \in Seq(Nat) /\ Len(Bytes(n, l)) = l
         /\ \A i \in 1..l : Bytes(n, l)[i] = (n \div Weight[l - i]) % Radix
<1>1. ASSUME NEW i \in 1..l PROVE (n \div Weight[l - i]) % Radix \in Nat
  <2> DEFINE w == Weight[l - i]
             q == n \div w
  <2>1. w \in Nat \ {0}
    <3>1. l - i \in Nat
      OBVIOUS
    <3> QED
      BY <3>1, WeightIs
  <2> HIDE DEF w
  <2>2. q \in Int
    BY <2>1, Division
  <2> HIDE DEF q
  <2>3. Radix \in Nat \ {0}
    BY RadixIs
  <2>4. q % Radix \in Nat
    BY <2>2, <2>3, Division
  <2> QED
    BY <2>4 DEF q, w
<1> DEFINE b == [i \in 1..l |-> (n \div Weight[l - i]) % Radix]
<1>2. b \in [1..l -> Nat]
  BY <1>1
<1>3. \A i \in 1..l : b[i] = (n \div Weight[l - i]) % Radix
  OBVIOUS
<1>4. Bytes(n, l) = b
  BY DEF Bytes
<1> HIDE DEF b
<1>5. b \in Seq(Nat) /\ Len(b) = l
  BY <1>2
<1> QED
  BY <1>3, <1>4, <1>5

\* More digits than a number needs begin with zeros.
LEMMA PaddedDigits ==
  ASSUME NEW n \in Nat, NEW k \in Nat, NEW l \in Nat, k <= l, n < Weight[k]
  PROVE  Zeros(l - k) \o Bytes(n, k) = Bytes(n, l)
<1> DEFINE m == l - k
           z == Zeros(m)
           d == Bytes(n, k)
           b == Bytes(n, l)
           u == z \o d
<1>1. m \in Nat /\ m + k = l /\ u = z \o d
  OBVIOUS
<1>2. z \in Seq(Nat) /\ Len(z) = m /\ \A i \in 1..m : z[i] = 0
  BY <1>1, ZerosAre
<1>3. d \in Seq(Nat) /\ Len(d) = k /\ \A i \in 1..k : d[i] = (n \div Weight[k - i]) % Radix
  BY BytesAre
<1>4. b \in Seq(Nat) /\ Len(b) = l /\ \A i \in 1..l : b[i] = (n \div Weight[l - i]) % Radix
  BY BytesAre
<1>5. ASSUME NEW i \in 1..m PROVE b[i] = 0
  <2> DEFINE w == Weight[l - i]
  <2>1. l - i \in Nat /\ k <= l - i /\ i \in 1..l
    BY <1>1
  <2>2. w \in Nat \ {0} /\ n < w
    BY <2>1, WeightIs, WeightGrows
  <2>3. b[i] = (n \div w) % Radix
    BY <1>4, <2>1
  <2> HIDE DEF w
  <2>4. n \div w = 0
    BY <2>2
  <2>5. 0 % Radix = 0
    BY RadixIs
  <2> QED
    BY <2>3, <2>4, <2>5
<1> HIDE DEF z, d, b, u, m
<1>6. IsJoined(u, z, d, m, k)
  BY <1>1, <1>2, <1>3, JoinedIs
<1>7. u \in Seq(Nat) /\ Len(u) = l
  BY <1>1, <1>6 DEF IsJoined
<1>8. ASSUME NEW i \in 1..l PROVE u[i] = b[i]
  <2>0. i \in Nat /\ m \in Nat
    BY <1>1
  <2>1. CASE i <= m
    <3>1. i \in 1..m
      BY <1>1, <2>1
    <3>2. u[i] = z[i]
      BY <1>6, <3>1 DEF IsJoined
    <3>3. z[i] = 0 /\ b[i] = 0
      BY <1>2, <1>5, <3>1
    <3> QED
      BY <3>2, <3>3
  <2>2. CASE i > m
    <3>1. i - m \in 1..k /\ m + (i - m) = i /\ k - (i - m) = l - i
      BY <1>1, <2>2
    <3>2. u[m + (i - m)] = d[i - m]
      BY <1>6, <3>1 DEF IsJoined
    <3>3. d[i - m] = (n \div Weight[k - (i - m)]) % Radix
      BY <1>3, <3>1
    <3> QED
      BY <1>4, <3>1, <3>2, <3>3
  <2> QED
    BY <2>0, <2>1, <2>2
<1>9. u = b
  BY <1>4, <1>7, <1>8, SameSequence
<1> QED
  BY <1>9 DEF u, z, d, b, m

\* The first digit of a number is not zero.
LEMMA FirstDigit ==
  ASSUME NEW n \in Nat \ {0}
  PROVE  Bytes(n, Size(n))[1] \in Nat \ {0}
<1> DEFINE k == Size(n)
           v == Weight[k - 1]
           q == n \div v
<1>1. k \in Nat \ {0} /\ v <= n /\ n < Weight[k] /\ k - 1 \in Nat /\ (k - 1) + 1 = k
  BY SizeIs
<1>2. v \in Nat /\ v > 0 /\ Weight[k] = Radix * v
  BY <1>1, WeightIs
<1>d. v = Weight[k - 1] /\ q = n \div v
  OBVIOUS
<1> HIDE DEF k, v, q
<1>3. Bytes(n, k)[1] = q % Radix
  <2>1. 1 \in 1..k /\ n \in Nat /\ k \in Nat
    BY <1>1
  <2>2. Bytes(n, k)[1] = (n \div Weight[k - 1]) % Radix
    BY <2>1, BytesAre
  <2> QED
    BY <2>2, <1>d
<1>4. n = v * q + (n % v) /\ n % v \in Nat /\ n % v < v /\ q \in Int
  <2>1. n \in Int /\ v \in Nat \ {0}
    BY <1>2
  <2>2. n = v * (n \div v) + (n % v) /\ n % v \in Nat /\ n % v < v /\ n \div v \in Int
    BY <2>1, Division
  <2> QED
    BY <2>2, <1>d
<1> DEFINE r == n % v
<1>5. n = v * q + r /\ r \in Nat /\ r < v /\ q \in Int /\ v <= n /\ n < Radix * v /\ n \in Nat
  BY <1>1, <1>2, <1>4
<1> HIDE DEF r
<1>6. q > 0
  <2> SUFFICES ASSUME q <= 0 PROVE FALSE
    BY <1>5
  <2>1. -q \in Nat /\ v * (-q) \in Nat /\ v * q = -(v * (-q))
    BY <1>2, <1>5
  <2> QED
    BY <1>2, <1>5, <2>1
<1>7. q < Radix
  <2> SUFFICES ASSUME q >= Radix PROVE FALSE
    BY <1>5, RadixIs
  <2> DEFINE e == q - Radix
  <2>1. e \in Nat /\ q = Radix + e
    BY <1>5, RadixIs
  <2> HIDE DEF e
  <2>2. v * (Radix + e) = Radix * v + v * e /\ v * e \in Nat /\ Radix * v \in Nat
    BY <1>2, <2>1, RadixIs
  <2> QED
    BY <1>5, <2>1, <2>2
<1>8. q % Radix = q
  <2>1. q \in Nat /\ Radix \in Nat \ {0}
    BY <1>5, <1>6, RadixIs
  <2>2. (Radix * 0 + q) % Radix = q
    BY <1>7, <2>1, Remainder
  <2> QED
    BY <2>1, <2>2
<1> QED
  BY <1>3, <1>5, <1>6, <1>8 DEF k

\* d is the encoding of n, with h zeros in front of its digits.
IsDer(d, n, k, h) ==
  /\ h \in {0, 1} /\ d \in Seq(Nat) /\ Len(d) = k + h + 2
  /\ d[1] = DER_TAG_INTEGER /\ d[2] = k + h
  /\ h = 1 => d[3] = 0 /\ Bytes(n, k)[1] >= Sign
  /\ h = 0 => Bytes(n, k)[1] < Sign
  /\ \A i \in 1..k : d[2 + h + i] = Bytes(n, k)[i]

\* The encodings of numbers.
LEMMA DerIs ==
  ASSUME NEW n \in Nat \ {0}
  PROVE  \E h \in {0, 1} : IsDer(DerInteger(n), n, Size(n), h)
<1> DEFINE k == Size(n)
           digits == Bytes(n, k)
           zero == <<0>>
           stuffed == zero \o digits
           content == IF digits[1] >= Sign THEN stuffed ELSE digits
           l == Len(content)
           head == <<DER_TAG_INTEGER, l>>
           d == head \o content
<1>1. k \in Nat \ {0}
  BY SizeIs
<1>2. digits \in Seq(Nat) /\ Len(digits) = k
  BY <1>1, BytesAre
<1>3. digits[1] \in Nat \ {0}
  BY FirstDigit
<1>4. DerInteger(n) = d
  BY DEF DerInteger
<1>5. digits = Bytes(n, k) /\ k = Size(n) /\ stuffed = zero \o digits /\ d = head \o content /\ l = Len(content)
  OBVIOUS
<1>6. zero \in Seq(Nat) /\ Len(zero) = 1 /\ zero[1] = 0
  OBVIOUS
<1> HIDE DEF k, digits, zero, stuffed
<1>7. IsJoined(stuffed, zero, digits, 1, k)
  BY <1>1, <1>2, <1>5, <1>6, JoinedIs
<1>8. \E h \in {0, 1} :
        /\ content \in Seq(Nat) /\ l = k + h
        /\ h = 1 => content[1] = 0 /\ digits[1] >= Sign
        /\ h = 0 => digits[1] < Sign
        /\ \A i \in 1..k : content[h + i] = digits[i]
  <2>1. CASE digits[1] >= Sign
    <3>1. content = stuffed
      BY <2>1
    <3> HIDE DEF content
    <3>2. stuffed \in Seq(Nat) /\ Len(stuffed) = 1 + k /\ stuffed[1] = 0
      <4>1. 1 \in 1..1
        OBVIOUS
      <4> QED
        BY <1>6, <1>7, <4>1 DEF IsJoined
    <3>3. \A i \in 1..k : stuffed[1 + i] = digits[i]
      BY <1>7 DEF IsJoined
    <3>4. l = k + 1
      BY <1>1, <3>1, <3>2
    <3> QED
      BY <2>1, <3>1, <3>2, <3>3, <3>4
  <2>2. CASE ~(digits[1] >= Sign)
    <3>1. content = digits
      BY <2>2
    <3>2. digits[1] < Sign
      BY <1>3, <2>2, RadixIs
    <3> HIDE DEF content
    <3>3. l = k + 0
      BY <1>1, <1>2, <3>1
    <3>4. \A i \in 1..k : content[0 + i] = digits[i]
      BY <3>1
    <3> QED
      BY <1>2, <3>1, <3>2, <3>3, <3>4
  <2> QED
    BY <2>1, <2>2
<1>9. l \in Nat /\ head = <<2, l>>
  BY DEF DER_TAG_INTEGER
<1> HIDE DEF content, l, head, d
<1>10. head \in Seq(Nat) /\ Len(head) = 2 /\ head[1] = 2 /\ head[2] = l
  BY <1>9
<1>11. PICK h \in {0, 1} :
        /\ content \in Seq(Nat) /\ l = k + h
        /\ h = 1 => content[1] = 0 /\ digits[1] >= Sign
        /\ h = 0 => digits[1] < Sign
        /\ \A i \in 1..k : content[h + i] = digits[i]
  BY <1>8
<1>12. IsJoined(d, head, content, 2, l)
  BY <1>5, <1>9, <1>10, <1>11, JoinedIs
<1>13. d \in Seq(Nat) /\ Len(d) = k + h + 2
  BY <1>1, <1>11, <1>12 DEF IsJoined
<1>14. d[1] = 2 /\ d[2] = l
  <2>1. 1 \in 1..2 /\ 2 \in 1..2
    OBVIOUS
  <2> QED
    BY <1>10, <1>12, <2>1 DEF IsJoined
<1>15. \A i \in 1..l : d[2 + i] = content[i]
  BY <1>12 DEF IsJoined
<1>16. ASSUME h = 1 PROVE d[3] = 0
  <2>1. 1 \in 1..l /\ 2 + 1 = 3
    BY <1>1, <1>11, <1>16
  <2>2. d[2 + 1] = content[1]
    BY <1>15, <2>1
  <2> QED
    BY <1>11, <1>16, <2>1, <2>2
<1>17. ASSUME NEW i \in 1..k PROVE d[2 + h + i] = digits[i]
  <2>1. h + i \in 1..l /\ 2 + (h + i) = 2 + h + i
    BY <1>1, <1>11
  <2>2. d[2 + (h + i)] = content[h + i]
    BY <1>15, <2>1
  <2> QED
    BY <1>11, <2>1, <2>2
<1>18. IsDer(d, n, k, h)
  BY <1>5, <1>11, <1>13, <1>14, <1>16, <1>17 DEF IsDer, DER_TAG_INTEGER
<1> QED
  BY <1>4, <1>5, <1>18

\* The places of an encoding's parts: its content, of i bytes, without a zero that is dropped
\* begins at first and is of size bytes.
Placed(k, h, D, i, first, size, a, b) ==
  /\ D = k + h + 2 /\ i = k + h /\ first = IF h = 1 /\ k > 1 THEN 4 ELSE 3
  /\ size = i + 3 - first /\ a = first - 1 /\ b = first + size - 1
LEMMA DerPlaces ==
  ASSUME NEW k \in Nat, k > 0, NEW h \in {0, 1}, NEW D, NEW i, NEW first, NEW size, NEW a, NEW b,
         Placed(k, h, D, i, first, size, a, b)
  PROVE  /\ D \in Nat /\ D >= 3 /\ i \in Nat \ {0} /\ i + 2 = D
         /\ a \in Nat /\ size \in Nat /\ first = a + 1 /\ b = a + size /\ a + size = D
         /\ (size = k /\ a = 2 + h) \/ (k = 1 /\ h = 1 /\ size = 2 /\ a = 2)
<1>1. CASE h = 1 /\ k > 1
  BY <1>1 DEF Placed
<1>2. CASE h = 1 /\ k = 1
  BY <1>2 DEF Placed
<1>3. CASE h = 0
  BY <1>3 DEF Placed
<1> QED
  BY <1>1, <1>2, <1>3

\* More weight, more digits.
LEMMA DigitsNeeded ==
  ASSUME NEW n \in Nat, NEW k \in Nat, k > 0, Weight[k - 1] <= n, NEW l \in Nat, n < Weight[l]
  PROVE  k <= l
<1> SUFFICES ASSUME k > l PROVE FALSE
  OBVIOUS
<1>1. k - 1 \in Nat /\ l <= k - 1
  OBVIOUS
<1>2. Weight[l] <= Weight[k - 1] /\ Weight[l] \in Nat /\ Weight[k - 1] \in Nat
  BY <1>1, WeightGrows, WeightIs
<1> QED
  BY <1>2

\* u begins with d.
Begins(u, d, D) == u \in Seq(Nat) /\ d \in Seq(Nat) /\ Len(d) = D /\ D <= Len(u) /\ \A i \in 1..D : u[i] = d[i]

\* The k numbers of u behind the first p are those of b.
Shows(u, p, b, k) == \A j \in 1..k : u[p + j] = b[j]

\* The decoder drops the zero in front of an encoding's digits, but not when there is one digit.
LEMMA StuffedDer ==
  ASSUME NEW n \in Nat \ {0}, NEW k, k = Size(n), NEW h, NEW d, NEW D, IsDer(d, n, k, h), NEW u, Begins(u, d, D)
  PROVE  /\ k \in Nat /\ k > 0 /\ h \in {0, 1} /\ D = k + h + 2
         /\ u[1] = DER_TAG_INTEGER /\ u[2] = k + h /\ (h = 1 => u[3] = 0)
         /\ Shows(u, 2 + h, Bytes(n, k), k)
         /\ Stuffed(u) <=> h = 1 /\ k > 1
<1> DEFINE digits == Bytes(n, k)
           first == digits[1]
<1>1. k \in Nat /\ k > 0
  BY SizeIs
<1>2. first \in Nat \ {0}
  BY FirstDigit
<1>3. h \in {0, 1} /\ D = k + h + 2 /\ d[1] = DER_TAG_INTEGER /\ d[2] = k + h
  BY DEF IsDer, Begins
<1>4. (h = 1 => d[3] = 0 /\ first >= Sign) /\ \A j \in 1..k : d[2 + h + j] = digits[j]
  BY DEF IsDer
<1>5. \A i \in 1..D : u[i] = d[i]
  BY DEF Begins
<1> HIDE DEF first, digits
<1>6. h \in Nat /\ D \in Nat /\ 1 \in 1..D /\ 2 \in 1..D /\ 3 \in 1..D /\ 1 \in 1..k
  <2>1. CASE h = 0
    BY ONLY <1>1, <1>3, <2>1
  <2>2. CASE h = 1
    BY ONLY <1>1, <1>3, <2>2
  <2> QED
    BY <1>3, <2>1, <2>2
<1>7. u[1] = d[1] /\ u[2] = d[2] /\ u[3] = d[3]
  BY <1>5, <1>6
<1>8. ASSUME NEW j \in 1..k PROVE u[2 + h + j] = digits[j]
  <2>1. 2 + h + j \in 1..D
    BY ONLY <1>1, <1>3, <1>6, j \in 1..k
  <2> QED
    BY <1>4, <1>5, <2>1
<1>9. u[2 + h + 1] = first
  BY <1>6, <1>8 DEF first
<1>a. Shows(u, 2 + h, digits, k)
  BY <1>8 DEF Shows
<1>10. Stuffed(u) <=> u[2] > 2 /\ u[3] = 0 /\ u[4] >= Sign
  BY DEF Stuffed
<1>11. CASE h = 0
  <2>1. u[3] = first
    BY <1>9, <1>11
  <2> QED
    BY <1>1, <1>2, <1>3, <1>7, <1>a, <1>10, <1>11, <2>1 DEF digits
<1>12. CASE h = 1
  <2>1. u[4] = first /\ u[3] = 0 /\ first >= Sign
    BY <1>4, <1>7, <1>9, <1>12
  <2>2. u[2] = k + 1
    BY <1>3, <1>7, <1>12
  <2>3. u[2] > 2 <=> k > 1
    BY <1>1, <2>2
  <2>4. Stuffed(u) <=> h = 1 /\ k > 1
    BY <1>10, <1>12, <2>1, <2>3
  <2> QED
    BY <1>1, <1>3, <1>7, <1>a, <2>1, <2>4 DEF digits
<1> QED
  BY <1>3, <1>11, <1>12

\* The decoder reads n, of length digits, from an encoding of D bytes.
Reads(result, n, length, D) == result = [consumed |-> D, bytes |-> Bytes(n, length)]

\* The decoder takes the encoding of a number for what it is, whatever comes behind it.
LEMMA DecodesDer ==
  ASSUME NEW n \in Nat \ {0}, NEW k, k = Size(n), NEW h, NEW d, NEW D, IsDer(d, n, k, h),
         NEW length \in Nat, length >= 2, n < Weight[length],
         NEW u, Begins(u, d, D), NEW len \in Nat, D <= len
  PROVE  Reads(prvDecodeAsn1Uint(u, len, length), n, length, D)
<1> DEFINE digits == Bytes(n, k)
           i == u[2]
           first == IF Stuffed(u) THEN 4 ELSE 3
           size == i + 3 - first
           b == first + size - 1
           value == SubSeq(u, first, b)
           a == first - 1
           pad == length - size
           result == prvDecodeAsn1Uint(u, len, length)
           whole == Zeros(pad) \o value
<1>1. k \in Nat /\ k > 0 /\ Weight[k - 1] <= n /\ n < Weight[k] /\ n \in Nat
  BY SizeIs
<1>2. digits \in Seq(Nat) /\ Len(digits) = k
  BY <1>1, BytesAre
<1>3. k <= length
  BY <1>1, DigitsNeeded
<1>4. /\ h \in {0, 1} /\ D = k + h + 2
      /\ u[1] = DER_TAG_INTEGER /\ u[2] = k + h /\ (h = 1 => u[3] = 0)
      /\ Stuffed(u) <=> h = 1 /\ k > 1
  BY StuffedDer
<1>5. \A j \in 1..k : u[2 + h + j] = digits[j]
  <2>1. Shows(u, 2 + h, digits, k)
    BY StuffedDer
  <2> HIDE DEF digits
  <2> QED
    BY <2>1 DEF Shows
<1>6. u \in Seq(Nat) /\ D <= Len(u)
  BY DEF Begins
<1>7. first = (IF h = 1 /\ k > 1 THEN 4 ELSE 3)
  BY <1>4
<1>8. size = i + 3 - first /\ b = first + size - 1 /\ a = first - 1 /\ i = k + h /\ pad = length - size
  BY <1>4
<1>9. value = SubSeq(u, first, b)
  OBVIOUS
<1>10. result =
         IF len < 3 \/ u[1] # DER_TAG_INTEGER \/ i = 0 \/ i + 2 > len THEN Rejected
         ELSE IF size > length THEN Rejected
         ELSE [consumed |-> i + 2, bytes |-> whole]
  BY Zenon DEF prvDecodeAsn1Uint, CutOff
<1>11. digits = Bytes(n, k) /\ whole = Zeros(pad) \o value
  OBVIOUS
<1> HIDE DEF digits, i, first, size, b, a, value, pad, result, whole
<1>12. /\ D \in Nat /\ D >= 3 /\ i \in Nat \ {0} /\ i + 2 = D
       /\ a \in Nat /\ size \in Nat /\ first = a + 1 /\ b = a + size /\ a + size = D
       /\ (size = k /\ a = 2 + h) \/ (k = 1 /\ h = 1 /\ size = 2 /\ a = 2)
  <2>1. Placed(k, h, D, i, first, size, a, b)
    BY <1>1, <1>4, <1>7, <1>8 DEF Placed
  <2> QED
    BY <1>1, <1>4, <2>1, DerPlaces
<1>13. size <= length
  <2>1. length \in Nat /\ length >= 2
    OBVIOUS
  <2> QED
    BY ONLY <1>3, <1>12, <2>1
<1>14. ~(len < 3) /\ ~(i = 0) /\ ~(i + 2 > len) /\ ~(size > length)
  <2>1. len \in Nat /\ D <= len /\ length \in Nat
    OBVIOUS
  <2> QED
    BY ONLY <1>12, <1>13, <2>1
<1>15. result = [consumed |-> D, bytes |-> whole]
  BY <1>4, <1>10, <1>12, <1>14
<1>16. IsPart(value, u, a, size)
  <2>1. a + size <= Len(u)
    BY <1>6, <1>12
  <2> QED
    BY <1>6, <1>9, <1>12, <2>1, PartIs
<1>17. CASE size = k /\ a = 2 + h
  <2>1. value = digits
    <3>1. value \in Seq(Nat) /\ Len(value) = k /\ \A j \in 1..k : value[j] = u[2 + h + j]
      BY <1>16, <1>17 DEF IsPart
    <3>2. \A j \in 1..Len(value) : value[j] = digits[j]
      BY <1>5, <3>1
    <3>3. Len(value) = Len(digits)
      BY <1>2, <3>1
    <3> QED
      BY <1>2, <3>1, <3>2, <3>3, SameSequence
  <2>2. Zeros(length - k) \o Bytes(n, k) = Bytes(n, length)
    BY <1>1, <1>3, PaddedDigits
  <2>3. whole = Bytes(n, length)
    BY <1>8, <1>11, <1>17, <2>1, <2>2
  <2> QED
    BY <1>15, <2>3 DEF Reads, result
<1>18. CASE k = 1 /\ h = 1 /\ size = 2 /\ a = 2
  <2> DEFINE two == Bytes(n, 2)
             z == Zeros(1)
             one == 1
             other == 2
  <2>a. one \in Nat /\ other \in Nat /\ one <= other /\ other - one = 1 /\ one = 1 /\ other = 2 /\ one \in 1..1
    OBVIOUS
  <2> HIDE DEF one, other
  <2>1. two = z \o digits
    <3>1. n < Weight[one]
      BY <1>1, <1>18, <2>a
    <3>2. Zeros(other - one) \o Bytes(n, one) = Bytes(n, other)
      BY <1>1, <2>a, <3>1, PaddedDigits
    <3> QED
      BY <1>11, <1>18, <2>a, <3>2
  <2>2. z \in Seq(Nat) /\ Len(z) = 1 /\ z[1] = 0
    BY <2>a, ZerosAre
  <2>b. two = Bytes(n, other)
    BY <2>a
  <2> HIDE DEF two, z
  <2>3. IsJoined(two, z, digits, 1, 1)
    BY <1>2, <1>18, <2>1, <2>2, JoinedIs
  <2>4. two \in Seq(Nat) /\ Len(two) = 2 /\ two[1] = 0 /\ two[2] = digits[1]
    <3>1. 1 \in 1..1 /\ 1 + 1 = 2
      OBVIOUS
    <3>2. two[1] = z[1] /\ two[1 + 1] = digits[1]
      BY <2>3, <3>1 DEF IsJoined
    <3> QED
      BY <2>2, <2>3, <3>1, <3>2 DEF IsJoined
  <2>5. value \in Seq(Nat) /\ Len(value) = 2 /\ value[1] = u[3] /\ value[2] = u[4]
    <3>1. 1 \in 1..2 /\ 2 \in 1..2 /\ 2 + 1 = 3 /\ 2 + 2 = 4
      OBVIOUS
    <3>2. value[1] = u[2 + 1] /\ value[2] = u[2 + 2]
      BY <1>16, <1>18, <3>1 DEF IsPart
    <3> QED
      BY <1>16, <1>18, <3>1, <3>2 DEF IsPart
  <2>6. u[3] = 0 /\ u[4] = digits[1]
    <3>1. 1 \in 1..k /\ 2 + h + 1 = 4
      BY <1>18
    <3>2. u[2 + h + 1] = digits[1]
      BY <1>5, <3>1
    <3> QED
      BY <1>4, <1>18, <3>1, <3>2
  <2>7. value = two
    <3>1. \A j \in 1..2 : value[j] = two[j]
      <4>1. value[1] = two[1] /\ value[2] = two[2]
        BY <2>4, <2>5, <2>6
      <4>2. \A j \in 1..2 : j = 1 \/ j = 2
        OBVIOUS
      <4> QED
        BY <4>1, <4>2
    <3>2. Len(value) = 2 /\ Len(value) = Len(two) /\ value \in Seq(Nat) /\ two \in Seq(Nat)
      BY <2>4, <2>5
    <3>3. \A j \in 1..Len(value) : value[j] = two[j]
      BY <3>1, <3>2
    <3> QED
      BY <3>2, <3>3, SameSequence
  <2>8. n < Weight[other]
    <3>1. Weight[one + 1] \in Nat /\ Weight[one] \in Nat /\ Weight[one + 1] >= 2 * Weight[one]
      BY <2>a, WeightIs
    <3>2. n < Weight[one] /\ one + 1 = other
      BY <1>1, <1>18, <2>a
    <3> QED
      BY <1>1, <3>1, <3>2
  <2>9. Zeros(length - other) \o Bytes(n, other) = Bytes(n, length)
    <3>1. other <= length
      BY <2>a
    <3> QED
      BY <1>1, <2>8, <2>a, <3>1, PaddedDigits
  <2>10. whole = Bytes(n, length)
    BY <1>8, <1>11, <1>18, <2>7, <2>9, <2>a, <2>b
  <2> QED
    BY <1>15, <2>10 DEF Reads, result
<1> QED
  BY <1>12, <1>17, <1>18

\* Signatures of the chip are read at full length.
LEMMA SignaturesRead == SignatureIsTheChips
<1> SUFFICES ASSUME NEW length \in Lengths, NEW r \in 1..(Weight[length] - 1), NEW s \in 1..(Weight[length] - 1),
                    NEW left \in Leftovers
             PROVE  LET answer == DerInteger(r) \o DerInteger(s)
                    IN  prvAsn1ToEcdsaRS(answer \o left, Len(answer), 2 * length)
                          = [ok |-> TRUE, rs |-> Bytes(r, length) \o Bytes(s, length)]
  BY DEF SignatureIsTheChips
<1> DEFINE d == DerInteger(r)
           e == DerInteger(s)
           D == Len(d)
           E == Len(e)
           k == Size(r)
           l == Size(s)
           answer == d \o e
           A == Len(answer)
           u == answer \o left
           U == Len(left)
           x == prvDecodeAsn1Uint(u, A, length)
           v == SubSeq(u, x.consumed + 1, Len(u))
           y == prvDecodeAsn1Uint(v, A - x.consumed, length)
<1>1. /\ length \in Nat /\ length >= 2 /\ r \in Nat \ {0} /\ s \in Nat \ {0}
      /\ r < Weight[length] /\ s < Weight[length] /\ left \in Seq(Nat) /\ U \in Nat
  <2>1. length \in Nat \ {0, 1} /\ left \in Seq(Nat)
    BY EncodingAssumption
  <2>2. Weight[length] \in Nat
    BY <2>1, WeightIs
  <2> QED
    BY <2>1, <2>2
<1>2. PICK g \in {0, 1} : IsDer(d, r, k, g)
  BY <1>1, DerIs
<1>3. PICK h \in {0, 1} : IsDer(e, s, l, h)
  BY <1>1, DerIs
<1>4. (2 * length) \div 2 = length /\ (2 * length) % 2 = 0
  BY <1>1
<1>5. prvAsn1ToEcdsaRS(u, A, 2 * length)
        = IF x = Rejected \/ y = Rejected THEN [ok |-> FALSE, rs |-> <<>>]
          ELSE [ok |-> TRUE, rs |-> x.bytes \o y.bytes]
  BY <1>4 DEF prvAsn1ToEcdsaRS
<1>6. /\ D = Len(d) /\ E = Len(e) /\ answer = d \o e /\ A = Len(answer) /\ u = answer \o left /\ U = Len(left)
      /\ x = prvDecodeAsn1Uint(u, A, length) /\ v = SubSeq(u, x.consumed + 1, Len(u))
      /\ y = prvDecodeAsn1Uint(v, A - x.consumed, length) /\ k = Size(r) /\ l = Size(s)
  OBVIOUS
<1> HIDE DEF x, y, v, u, A, answer, U, D, E, d, e, k, l
<1>7. d \in Seq(Nat) /\ e \in Seq(Nat) /\ D \in Nat /\ E \in Nat /\ D > 0 /\ E > 0
  <2>1. k \in 1..r /\ l \in 1..s
    BY <1>1, <1>6, SizeIs
  <2>a. k \in Nat /\ l \in Nat
    BY <2>1
  <2>2. d \in Seq(Nat) /\ D = k + g + 2 /\ g \in {0, 1}
    BY <1>2, <1>6 DEF IsDer
  <2>3. e \in Seq(Nat) /\ E = l + h + 2 /\ h \in {0, 1}
    BY <1>3, <1>6 DEF IsDer
  <2> QED
    BY <2>a, <2>2, <2>3
<1>8. IsJoined(answer, d, e, D, E)
  BY <1>6, <1>7, JoinedIs
<1>9. answer \in Seq(Nat) /\ A = D + E /\ A \in Nat
  BY <1>6, <1>7, <1>8 DEF IsJoined
<1>10. IsJoined(u, answer, left, A, U)
  BY <1>1, <1>6, <1>9, JoinedIs
<1>11. u \in Seq(Nat) /\ Len(u) = A + U
  BY <1>10 DEF IsJoined
<1>12. x = [consumed |-> D, bytes |-> Bytes(r, length)]
  <2>1. D <= A /\ A <= Len(u)
    BY <1>1, <1>7, <1>9, <1>11
  <2>2. ASSUME NEW i \in 1..D PROVE u[i] = d[i]
    <3>1. i \in 1..A
      BY <1>7, <1>9
    <3>2. u[i] = answer[i]
      BY <1>10, <3>1 DEF IsJoined
    <3>3. answer[i] = d[i]
      BY <1>8 DEF IsJoined
    <3> QED
      BY <3>2, <3>3
  <2>3. Begins(u, d, D)
    <3>1. D <= Len(u)
      BY <1>7, <1>9, <2>1
    <3> QED
      BY <1>6, <1>7, <1>11, <2>2, <3>1 DEF Begins
  <2>4. Reads(prvDecodeAsn1Uint(u, A, length), r, length, D)
    BY <1>1, <1>2, <1>6, <1>9, <2>1, <2>3, DecodesDer
  <2> QED
    BY <1>6, <2>4 DEF Reads
<1>13. x # Rejected /\ x.consumed = D /\ x.bytes = Bytes(r, length)
  BY <1>7, <1>12 DEF Rejected
<1> DEFINE m == E + U
<1>14. IsPart(v, u, D, m)
  <2>1. m \in Nat /\ D + m <= Len(u) /\ Len(u) = D + m
    BY <1>1, <1>7, <1>9, <1>11
  <2>2. v = SubSeq(u, D + 1, D + m)
    BY <1>6, <1>13, <2>1
  <2> HIDE DEF m
  <2> QED
    BY <1>7, <1>11, <2>1, <2>2, PartIs
<1>15. y = [consumed |-> E, bytes |-> Bytes(s, length)]
  <2>1. A - D = E /\ E <= m /\ m \in Nat
    BY <1>1, <1>7, <1>9
  <2>2. v \in Seq(Nat) /\ Len(v) = m
    BY <1>14 DEF IsPart
  <2>3. ASSUME NEW i \in 1..E PROVE v[i] = e[i]
    <3>1. i \in 1..m /\ D + i \in 1..A
      BY <1>1, <1>7, <1>9
    <3>2. v[i] = u[D + i]
      BY <1>14, <3>1 DEF IsPart
    <3>3. u[D + i] = answer[D + i]
      BY <1>10, <3>1 DEF IsJoined
    <3>4. answer[D + i] = e[i]
      BY <1>8 DEF IsJoined
    <3> QED
      BY <3>2, <3>3, <3>4
  <2>4. y = prvDecodeAsn1Uint(v, E, length)
    BY <1>6, <1>13, <2>1
  <2>5. E <= E /\ E <= Len(v)
    BY <1>7, <2>1, <2>2
  <2>6. Begins(v, e, E)
    BY <1>6, <1>7, <2>2, <2>3, <2>5 DEF Begins
  <2>7. Reads(prvDecodeAsn1Uint(v, E, length), s, length, E)
    BY <1>1, <1>3, <1>6, <1>7, <2>5, <2>6, DecodesDer
  <2> QED
    BY <2>4, <2>7 DEF Reads
<1>16. y # Rejected /\ y.bytes = Bytes(s, length)
  BY <1>7, <1>15 DEF Rejected
<1>17. prvAsn1ToEcdsaRS(u, A, 2 * length) = [ok |-> TRUE, rs |-> Bytes(r, length) \o Bytes(s, length)]
  BY <1>5, <1>13, <1>16
<1> QED
  BY <1>17 DEF u, A, answer, d, e

-----------------------------------------------------------------------------
(* The chip's answers: metadata *)

Walking(at, data, N) == at = [n \in 0..N |-> IF n = 0 THEN LoopStart ELSE Iteration(data, N, at[n - 1])]

\* The loop ends behind the last byte, in a place that no iteration leaves.
LEMMA WalkEnds ==
  ASSUME NEW data, NEW N \in Nat, NEW V, LoopStart \in V,
         \A at \in V : Iteration(data, N, at) \in V /\ at.offset \in Nat,
         \A at \in V : at.offset > N \/ Iteration(data, N, at).offset > at.offset,
         \A at \in V : at.offset > N => Iteration(data, N, at) = at
  PROVE  Walk(data, N) \in V /\ Walk(data, N).offset > N
<1> DEFINE step == [x \in Nat \X V |-> Iteration(data, N, x[2])]
           at == CHOOSE f : Walking(f, data, N)
           base == LoopStart
<1>1. step \in [Nat \X V -> V] /\ \A n \in Nat, v \in V : step[<<n, v>>] = Iteration(data, N, v)
  OBVIOUS
<1>2. base \in V /\ base = LoopStart
  OBVIOUS
<1> HIDE DEF step, base
<1>3. \E f : Walking(f, data, N)
  <2>1. PICK f \in [0..N -> V] : RecursUpTo(f, base, step, N)
    BY <1>1, <1>2, RecursionUpTo
  <2>2. ASSUME NEW n \in 0..N PROVE f[n] = IF n = 0 THEN LoopStart ELSE Iteration(data, N, f[n - 1])
    <3>1. CASE n = 0
      BY <1>2, <2>1, <3>1 DEF RecursUpTo
    <3>2. CASE n # 0
      <4>1. n \in 1..N /\ n - 1 \in 0..N /\ n \in Nat
        BY <3>2
      <4>2. f[n - 1] \in V
        BY <4>1
      <4>3. f[n] = step[<<n, f[n - 1]>>]
        BY <2>1, <4>1 DEF RecursUpTo
      <4> QED
        BY <1>1, <3>2, <4>1, <4>2, <4>3
    <3> QED
      BY <3>1, <3>2
  <2>3. f = [n \in 0..N |-> f[n]]
    OBVIOUS
  <2>4. f = [n \in 0..N |-> IF n = 0 THEN LoopStart ELSE Iteration(data, N, f[n - 1])]
    BY <2>2, <2>3
  <2> QED
    BY <2>4, Zenon DEF Walking
<1>4. Walking(at, data, N)
  BY <1>3
<1>5. Walk(data, N) = at[N]
  BY DEF Walk, Walking
<1> HIDE DEF at
<1>6. \A n \in 0..N : at[n] = IF n = 0 THEN LoopStart ELSE Iteration(data, N, at[n - 1])
  <2>1. at = [n \in 0..N |-> IF n = 0 THEN LoopStart ELSE Iteration(data, N, at[n - 1])]
    BY <1>4, Zenon DEF Walking
  <2> QED
    BY <2>1, Zenon
<1> DEFINE S == {n \in Nat : n <= N => at[n] \in V /\ (at[n].offset > n \/ at[n].offset > N)}
<1>7. 0 \in S
  <2>1. at[0] = LoopStart
    BY <1>6
  <2> QED
    BY <2>1 DEF LoopStart
<1>8. ASSUME NEW n \in Nat, n \in S PROVE n + 1 \in S
  <2> SUFFICES ASSUME n + 1 <= N
               PROVE  at[n + 1] \in V /\ (at[n + 1].offset > n + 1 \/ at[n + 1].offset > N)
    OBVIOUS
  <2> DEFINE x == at[n]
             y == at[n + 1]
  <2>1. x \in V /\ (x.offset > n \/ x.offset > N)
    BY <1>8
  <2>2. y = Iteration(data, N, x)
    <3>1. n + 1 \in 0..N /\ n + 1 # 0 /\ (n + 1) - 1 = n
      OBVIOUS
    <3> QED
      BY <1>6, <3>1
  <2> HIDE DEF x, y
  <2>3. y \in V /\ x.offset \in Nat /\ y.offset \in Nat
    BY <2>1, <2>2
  <2>4. y.offset > n + 1 \/ y.offset > N
    <3>1. CASE x.offset > N
      BY <2>1, <2>2, <3>1
    <3>2. CASE ~(x.offset > N)
      <4>1. y.offset > x.offset /\ x.offset > n
        BY <2>1, <2>2, <3>2
      <4> QED
        BY <2>3, <4>1
    <3> QED
      BY <3>1, <3>2
  <2> QED
    BY <2>3, <2>4 DEF y
<1>9. N \in S
  <2> HIDE DEF S
  <2> QED
    BY <1>7, <1>8, Induction
<1> QED
  BY <1>5, <1>9

At(o, w) == [offset |-> o, start |-> TRUE, val |-> w]

\* An iteration at a byte that is no tag the loop looks for.
LEMMA EntrySkipped ==
  ASSUME NEW data, NEW N \in Nat, NEW o \in Nat, o <= N, data[o] \notin LoopTags, NEW w, data[o + 1] \in Nat
  PROVE  Iteration(data, N, At(o, w)) = At(o + data[o + 1] + 2, w)
<1>1. data[o] # OBJECT_TAG /\ data[o] # KEY_ALGO_IDFR_TAG /\ ~(o > N)
  BY DEF LoopTags
<1>2. Iteration(data, N, At(o, w)) = At(o + Skip(data, o), w)
  BY <1>1 DEF Iteration, At
<1>3. o + Skip(data, o) = o + data[o + 1] + 2
  BY DEF Skip
<1> QED
  BY <1>2, <1>3

\* An iteration at the tag of the algorithm.
LEMMA AlgorithmRead ==
  ASSUME NEW data, NEW N \in Nat, NEW o \in Nat, o <= N, data[o] = KEY_ALGO_IDFR_TAG, NEW w
  PROVE  Iteration(data, N, At(o, w)) = At(o + 1, ValueAt(data, o + 1, w))
<1>1. data[o] # OBJECT_TAG /\ ~(o > N)
  BY DEF KEY_ALGO_IDFR_TAG, OBJECT_TAG
<1> QED
  BY <1>1 DEF Iteration, At

\* The loop is over.
LEMMA LoopOver ==
  ASSUME NEW data, NEW N \in Nat, NEW at, at.offset > N
  PROVE  Iteration(data, N, at) = at
BY DEF Iteration

\* The first iteration goes on at the first entry.
LEMMA FirstEntry ==
  ASSUME NEW data, NEW N \in Nat, N >= 3, data[1] = OBJECT_TAG, data[3] # OBJECT_TAG
  PROVE  Iteration(data, N, LoopStart) = Iteration(data, N, At(3, 0))
<1>1. ~(1 > N) /\ ~(3 > N) /\ 1 + 2 = 3
  OBVIOUS
<1>2. Iteration(data, N, LoopStart) =
        IF data[3] = KEY_ALGO_IDFR_TAG THEN [offset |-> 3 + 1, start |-> TRUE, val |-> ValueAt(data, 3 + 1, 0)]
        ELSE [offset |-> 3 + Skip(data, 3), start |-> TRUE, val |-> 0]
  BY <1>1 DEF Iteration, LoopStart
<1>3. Iteration(data, N, At(3, 0)) =
        IF data[3] = KEY_ALGO_IDFR_TAG THEN [offset |-> 3 + 1, start |-> TRUE, val |-> ValueAt(data, 3 + 1, 0)]
        ELSE [offset |-> 3 + Skip(data, 3), start |-> TRUE, val |-> 0]
  BY <1>1 DEF Iteration, At
<1> QED
  BY <1>2, <1>3

\* From first on, entries the loop skips lead from one place of B to the next, up to end.
Chain(data, first, end, B) ==
  /\ B \subseteq Nat /\ first \in B /\ \A b \in B : first <= b /\ b <= end
  /\ \A b \in B : b # end => data[b] \notin LoopTags /\ data[b + 1] \in Nat /\ b + data[b + 1] + 2 \in B

\* Two chains.
LEMMA ChainsJoined ==
  ASSUME NEW data, NEW first \in Nat, NEW middle \in Nat, NEW end \in Nat, first <= middle, middle <= end,
         NEW B, Chain(data, first, middle, B), NEW C, Chain(data, middle, end, C)
  PROVE  Chain(data, first, end, B \cup C)
<1>1. /\ B \subseteq Nat /\ first \in B /\ \A b \in B : first <= b /\ b <= middle
      /\ \A b \in B : b # middle => data[b] \notin LoopTags /\ data[b + 1] \in Nat /\ b + data[b + 1] + 2 \in B
  BY DEF Chain
<1>2. /\ C \subseteq Nat /\ middle \in C /\ \A b \in C : middle <= b /\ b <= end
      /\ \A b \in C : b # end => data[b] \notin LoopTags /\ data[b + 1] \in Nat /\ b + data[b + 1] + 2 \in C
  BY DEF Chain
<1>3. ASSUME NEW b \in B \cup C PROVE first <= b /\ b <= end
  BY <1>1, <1>2
<1>4. ASSUME NEW b \in B \cup C, b # end
      PROVE  data[b] \notin LoopTags /\ data[b + 1] \in Nat /\ b + data[b + 1] + 2 \in B \cup C
  <2>1. CASE b \in C
    BY <1>2, <1>4, <2>1
  <2>2. CASE b \notin C
    <3>1. b \in B /\ b # middle
      BY <1>2, <2>2
    <3> QED
      BY <1>1, <3>1
  <2> QED
    BY <2>1, <2>2
<1> QED
  BY <1>1, <1>2, <1>3, <1>4 DEF Chain

\* An entry's bytes.
IsEntry(e, tag, value, l) ==
  /\ e \in Seq(Nat) /\ Len(e) = 2 + l /\ l \in Nat /\ l = Len(value)
  /\ e[1] = tag /\ e[2] = l /\ \A i \in 1..l : e[2 + i] = value[i]
LEMMA EntryIs ==
  ASSUME NEW tag \in Nat, NEW value \in Seq(Nat)
  PROVE  IsEntry(Entry(tag, value), tag, value, Len(value))
<1> DEFINE l == Len(value)
           head == <<tag, l>>
           e == head \o value
<1>1. l \in Nat /\ e = head \o value /\ Len(value) = l
  OBVIOUS
<1>2. Entry(tag, value) = e
  BY DEF Entry
<1> HIDE DEF l
<1>3. head \in Seq(Nat) /\ Len(head) = 2 /\ head[1] = tag /\ head[2] = l
  BY <1>1
<1> HIDE DEF head, e
<1>4. IsJoined(e, head, value, 2, l)
  BY <1>1, <1>3, JoinedIs
<1>5. e[1] = tag /\ e[2] = l
  <2>1. 1 \in 1..2 /\ 2 \in 1..2
    OBVIOUS
  <2> QED
    BY <1>3, <1>4, <2>1 DEF IsJoined
<1>6. IsEntry(e, tag, value, l)
  BY <1>1, <1>4, <1>5 DEF IsEntry, IsJoined
<1> QED
  BY <1>2, <1>6 DEF l

MetadataEntries == Seq([tag : Nat \ LoopTags, value : Seq(Nat)])
EntryOf(e) == Entry(e.tag, e.value)

\* The parts of entries.
LEMMA EntriesAre ==
  ASSUME NEW es \in MetadataEntries
  PROVE  /\ Len(es) \in Nat
         /\ \A n \in 1..Len(es) : es[n].tag \in Nat /\ es[n].tag \notin LoopTags /\ es[n].value \in Seq(Nat)
<1> DEFINE T == Nat \ LoopTags
           V == Seq(Nat)
           R == [tag : T, value : V]
<1>1. es \in Seq(R)
  BY DEF MetadataEntries
<1>2. \A r \in R : r.tag \in T /\ r.value \in V
  OBVIOUS
<1> HIDE DEF R
<1>3. Len(es) \in Nat /\ \A n \in 1..Len(es) : es[n] \in R
  BY <1>1
<1> QED
  BY <1>2, <1>3

Encoding(es, f) ==
  f = [n \in 0..Len(es) |-> IF n = 0 THEN <<>> ELSE f[n - 1] \o Entry(es[n].tag, es[n].value)]

\* f[n] holds the first n entries.
Encodes(f, es) ==
  /\ f[0] = <<>> /\ \A n \in 0..Len(es) : f[n] \in Seq(Nat)
  /\ \A n \in 0..(Len(es) - 1) : f[n + 1] = f[n] \o EntryOf(es[n + 1])

\* Encoded() is the last value of its recursion.
LEMMA EncodedIs ==
  ASSUME NEW es \in MetadataEntries
  PROVE  \E f : Encodes(f, es) /\ Encoded(es) = f[Len(es)]
<1> DEFINE L == Len(es)
           encoded == CHOOSE f : Encoding(es, f)
           ent == [n \in 1..L |-> EntryOf(es[n])]
           V == Seq(Nat)
           zero == <<>>
           step == [x \in Nat \X V |-> IF x[1] \in 1..L THEN x[2] \o ent[x[1]] ELSE zero]
<1>1. L \in Nat /\ \A n \in 1..L : es[n].tag \in Nat /\ es[n].value \in Seq(Nat)
  BY EntriesAre
<1>2. \A n \in 1..L : ent[n] \in V /\ ent[n] = EntryOf(es[n])
  <2>1. ASSUME NEW n \in 1..L PROVE EntryOf(es[n]) \in V
    <3>1. es[n].tag \in Nat /\ es[n].value \in Seq(Nat)
      BY <1>1
    <3>2. IsEntry(EntryOf(es[n]), es[n].tag, es[n].value, Len(es[n].value))
      BY <3>1, EntryIs DEF EntryOf
    <3> QED
      BY <3>2 DEF IsEntry
  <2> QED
    BY <2>1
<1>3. Encoded(es) = encoded[L]
  BY DEF Encoded, Encoding
<1> HIDE DEF L, ent
<1>4. \A v \in V, n \in 1..L : v \o ent[n] \in V
  BY <1>2
<1>6. zero \in V /\ zero = <<>>
  OBVIOUS
<1> HIDE DEF V, zero
<1>5. ASSUME NEW n \in Nat, NEW v \in V
      PROVE  (n \in 1..L => step[<<n, v>>] = v \o ent[n]) /\ step[<<n, v>>] \in V
  <2>1. step[<<n, v>>] = IF n \in 1..L THEN v \o ent[n] ELSE zero
    OBVIOUS
  <2> HIDE DEF step
  <2> QED
    BY <1>4, <1>6, <2>1
<1>7. step \in [Nat \X V -> V]
  <2>1. step = [x \in Nat \X V |-> step[x]]
    OBVIOUS
  <2> HIDE DEF step
  <2>2. \A x \in Nat \X V : step[x] \in V
    BY <1>5
  <2> QED
    BY <2>1, <2>2
<1> HIDE DEF step
<1>8. PICK g \in [0..L -> V] : RecursUpTo(g, zero, step, L)
  BY <1>1, <1>6, <1>7, RecursionUpTo
<1>9. ASSUME NEW n \in 0..L, n # 0 PROVE g[n] = g[n - 1] \o EntryOf(es[n]) /\ g[n - 1] \in V
  <2>1. n \in 1..L /\ n - 1 \in 0..L /\ n \in Nat
    BY <1>1, <1>9
  <2>2. g[n - 1] \in V
    BY <2>1
  <2>3. g[n] = step[<<n, g[n - 1]>>]
    BY <1>8, <2>1 DEF RecursUpTo
  <2>4. step[<<n, g[n - 1]>>] = g[n - 1] \o ent[n]
    BY <1>5, <2>1, <2>2
  <2> QED
    BY <1>2, <2>1, <2>2, <2>3, <2>4
<1>10. g[0] = <<>>
  BY <1>6, <1>8 DEF RecursUpTo
<1>11. Encoding(es, g)
  <2>1. ASSUME NEW n \in 0..L
        PROVE  g[n] = IF n = 0 THEN <<>> ELSE g[n - 1] \o Entry(es[n].tag, es[n].value)
    <3>1. CASE n = 0
      BY <1>10, <3>1
    <3>2. CASE n # 0
      BY <1>9, <3>2 DEF EntryOf
    <3> QED
      BY <3>1, <3>2
  <2>2. g = [n \in 0..L |-> g[n]]
    OBVIOUS
  <2>3. g = [n \in 0..L |-> IF n = 0 THEN <<>> ELSE g[n - 1] \o Entry(es[n].tag, es[n].value)]
    BY <2>1, <2>2
  <2> QED
    BY <2>3, Zenon DEF Encoding, L
<1>12. Encoding(es, encoded)
  BY <1>11
<1> HIDE DEF encoded
<1>13. \A n \in 0..L : encoded[n] = IF n = 0 THEN <<>> ELSE encoded[n - 1] \o Entry(es[n].tag, es[n].value)
  <2>1. encoded = [n \in 0..L |-> IF n = 0 THEN <<>> ELSE encoded[n - 1] \o Entry(es[n].tag, es[n].value)]
    BY <1>12, Zenon DEF Encoding, L
  <2> QED
    BY <2>1, Zenon
<1>14. encoded[0] = <<>>
  BY <1>1, <1>13
<1>15. ASSUME NEW n \in 0..(L - 1) PROVE encoded[n + 1] = encoded[n] \o EntryOf(es[n + 1])
  <2>1. n + 1 \in 0..L /\ n + 1 # 0 /\ (n + 1) - 1 = n
    BY <1>1
  <2> QED
    BY <1>13, <2>1 DEF EntryOf
<1> DEFINE S == {n \in Nat : n <= L => encoded[n] \in V}
<1>16. ASSUME NEW n \in Nat, n \in S PROVE n + 1 \in S
  <2> SUFFICES ASSUME n + 1 <= L PROVE encoded[n + 1] \in V
    OBVIOUS
  <2>1. n \in 0..(L - 1) /\ n + 1 \in 1..L /\ encoded[n] \in V
    BY <1>1, <1>16
  <2> QED
    BY <1>2, <1>4, <1>15, <2>1
<1>17. \A n \in 0..L : encoded[n] \in V
  <2>1. 0 \in S
    BY <1>6, <1>14
  <2> HIDE DEF S
  <2>2. \A n \in Nat : n \in S
    BY <1>16, <2>1, Induction
  <2> QED
    BY <1>1, <2>2 DEF S
<1>18. Encodes(encoded, es)
  BY <1>14, <1>15, <1>17 DEF Encodes, L, V
<1> QED
  BY <1>3, <1>18 DEF L

\* data holds e, of l bytes, behind p.
Holds(data, p, e, l) == e \in Seq(Nat) /\ Len(e) = l /\ \A i \in 1..l : data[p + i] = e[i]

\* One more entry makes a chain longer.
LEMMA ChainGrows ==
  ASSUME NEW data, NEW first \in Nat, NEW end \in Nat, first <= end, NEW B, Chain(data, first, end, B),
         data[end] \notin LoopTags, data[end + 1] \in Nat, NEW new, new = end + data[end + 1] + 2
  PROVE  \E C : Chain(data, first, new, C)
<1>1. /\ B \subseteq Nat /\ first \in B /\ \A b \in B : first <= b /\ b <= end
      /\ \A b \in B : b # end => data[b] \notin LoopTags /\ data[b + 1] \in Nat /\ b + data[b + 1] + 2 \in B
  BY DEF Chain
<1>2. new \in Nat /\ end <= new
  OBVIOUS
<1> DEFINE C == B \cup {new}
<1>3. ASSUME NEW b \in C PROVE first <= b /\ b <= new
  BY <1>1, <1>2
<1>4. ASSUME NEW b \in C, b # new
      PROVE  data[b] \notin LoopTags /\ data[b + 1] \in Nat /\ b + data[b + 1] + 2 \in C
  <2>1. CASE b = end
    BY <2>1
  <2>2. CASE b # end
    BY <1>1, <1>4, <2>2
  <2> QED
    BY <2>1, <2>2
<1>5. C \subseteq Nat /\ first \in C
  BY <1>1, <1>2
<1> HIDE DEF C
<1>6. Chain(data, first, new, C)
  BY <1>3, <1>4, <1>5 DEF Chain
<1> QED
  BY <1>6

\* Encoded entries make a chain.
LEMMA EncodedChain ==
  ASSUME NEW es \in MetadataEntries, NEW data, NEW p \in Nat, NEW c, c = Encoded(es), NEW L \in Nat,
         Holds(data, p, c, L)
  PROVE  \E B : Chain(data, p + 1, p + 1 + L, B)
<1>1. PICK f : Encodes(f, es) /\ c = f[Len(es)]
  BY EncodedIs
<1> DEFINE n == Len(es)
           last(k) == p + 1 + Len(f[k])
           Good(k) == Holds(data, p, f[k], Len(f[k])) => \E B : Chain(data, p + 1, last(k), B)
           S == {k \in Nat : k <= n => Good(k)}
<1>2. n \in Nat /\ \A k \in 1..n : es[k].tag \in Nat /\ es[k].tag \notin LoopTags /\ es[k].value \in Seq(Nat)
  BY EntriesAre
<1>3. f[0] = <<>> /\ \A k \in 0..n : f[k] \in Seq(Nat)
  BY <1>1 DEF Encodes
<1>4. \A k \in 0..(n - 1) : f[k + 1] = f[k] \o EntryOf(es[k + 1])
  BY <1>1 DEF Encodes
<1> HIDE DEF n
<1>5. Good(0)
  <2>1. Len(f[0]) = 0 /\ last(0) = p + 1
    BY <1>3
  <2>2. Chain(data, p + 1, p + 1, {p + 1})
    BY DEF Chain
  <2> QED
    BY <2>1, <2>2
<1>6. ASSUME NEW k \in Nat, k + 1 <= n, Good(k), Holds(data, p, f[k + 1], Len(f[k + 1]))
      PROVE  \E B : Chain(data, p + 1, last(k + 1), B)
  <2> DEFINE x == f[k]
             y == f[k + 1]
             e == EntryOf(es[k + 1])
             m == Len(x)
             tag == es[k + 1].tag
             value == es[k + 1].value
             l == Len(value)
             end == last(k)
             new == last(k + 1)
             t == 2 + l
  <2>1. k \in 0..n /\ k \in 0..(n - 1) /\ k + 1 \in 1..n /\ k <= n
    BY <1>2, <1>6
  <2>2. x \in Seq(Nat) /\ m \in Nat /\ Len(x) = m /\ y = x \o e
    <3>1. x \in Seq(Nat)
      BY <1>3, <2>1
    <3>2. y = x \o e
      BY <1>4, <2>1
    <3> QED
      BY <3>1, <3>2
  <2>b. tag \in Nat /\ tag \notin LoopTags /\ value \in Seq(Nat)
    BY <1>2, <2>1
  <2>3. IsEntry(e, tag, value, l)
    BY <2>b, EntryIs DEF EntryOf
  <2>4. e \in Seq(Nat) /\ Len(e) = 2 + l /\ l \in Nat /\ e[1] = tag /\ e[2] = l
    BY <2>3 DEF IsEntry
  <2>5. end = p + 1 + m /\ new = p + 1 + Len(y)
    OBVIOUS
  <2>6. Good(k) /\ Holds(data, p, y, Len(y))
    BY <1>6
  <2>a. Good(k) <=> (Holds(data, p, x, m) => \E B : Chain(data, p + 1, end, B))
    OBVIOUS
  <2> HIDE DEF x, y, e, m, tag, value, l, end, new, Good
  <2>c. t \in Nat /\ t = 2 + l /\ Len(e) = t
    BY <2>4
  <2> HIDE DEF t
  <2>7. IsJoined(y, x, e, m, t)
    BY <2>2, <2>4, <2>c, JoinedIs
  <2>8. Len(y) = m + t /\ \A i \in 1..m : y[i] = x[i]
    BY <2>7 DEF IsJoined
  <2>9. \A i \in 1..(m + t) : data[p + i] = y[i]
    BY <2>6, <2>8 DEF Holds
  <2>10. Holds(data, p, x, m)
    <3>1. \A i \in 1..m : i \in 1..(m + t)
      BY <2>2, <2>c
    <3> QED
      BY <2>2, <2>8, <2>9, <3>1 DEF Holds
  <2>11. PICK B : Chain(data, p + 1, end, B)
    BY <2>6, <2>10, <2>a
  <2>12. data[end] = tag /\ data[end + 1] = l
    <3>1. m + 1 \in 1..(m + t) /\ m + 2 \in 1..(m + t) /\ 1 \in 1..t /\ 2 \in 1..t
      BY <2>2, <2>4, <2>c
    <3>2. p + (m + 1) = end /\ p + (m + 2) = end + 1
      BY <2>2, <2>5
    <3>3. y[m + 1] = e[1] /\ y[m + 2] = e[2]
      BY <2>7, <3>1 DEF IsJoined
    <3>4. data[p + (m + 1)] = y[m + 1] /\ data[p + (m + 2)] = y[m + 2]
      BY <2>9, <3>1
    <3> QED
      BY <2>4, <3>2, <3>3, <3>4
  <2>13. end \in Nat /\ p + 1 <= end /\ new = end + l + 2
    BY <2>2, <2>4, <2>5, <2>8, <2>c
  <2>14. data[end] \notin LoopTags /\ data[end + 1] \in Nat /\ new = end + data[end + 1] + 2
    BY <2>b, <2>4, <2>12, <2>13
  <2>15. \E C : Chain(data, p + 1, new, C)
    BY <2>11, <2>13, <2>14, ChainGrows
  <2> QED
    BY <2>15 DEF new
<1>g. ASSUME NEW k \in Nat, k \in S PROVE k + 1 \in S
  <2> HIDE DEF Good
  <2>1. ASSUME k + 1 <= n PROVE Good(k) /\ k <= n
    BY <1>2, <1>g, <2>1
  <2>2. ASSUME k + 1 <= n PROVE Good(k + 1)
    BY <1>6, <2>1, <2>2 DEF Good
  <2> QED
    BY <2>2
<1>7. n \in S
  <2>1. 0 \in S
    BY <1>5
  <2> HIDE DEF S
  <2> QED
    BY <1>2, <1>g, <2>1, Induction
<1>8. Good(n)
  BY <1>2, <1>7
<1>9. f[n] = c /\ Len(f[n]) = L
  BY <1>1 DEF n, Holds
<1> QED
  BY <1>8, <1>9

\* Encoded entries are bytes.
LEMMA EncodedBytes ==
  ASSUME NEW es \in MetadataEntries
  PROVE  Encoded(es) \in Seq(Nat)
<1>1. PICK f : Encodes(f, es) /\ Encoded(es) = f[Len(es)]
  BY EncodedIs
<1>2. Len(es) \in 0..Len(es)
  BY DEF MetadataEntries
<1> QED
  BY <1>1, <1>2 DEF Encodes

\* What holds two sequences, one after the other, holds each of them.
HoldsBoth(data, p, s, m, t, n, l) == l = m + n /\ Holds(data, p, s, m) /\ Holds(data, p + m, t, n)
LEMMA HoldsParts ==
  ASSUME NEW data, NEW p \in Nat, NEW s \in Seq(Nat), NEW t \in Seq(Nat), NEW m \in Nat, Len(s) = m,
         NEW n \in Nat, Len(t) = n, NEW u, u = s \o t, NEW l, Holds(data, p, u, l)
  PROVE  HoldsBoth(data, p, s, m, t, n, l)
<1> DEFINE q == p + m
<1>1. m \in Nat /\ n \in Nat /\ Len(s) = m /\ Len(t) = n /\ q = p + m
  OBVIOUS
<1> HIDE DEF q
<1>2. IsJoined(u, s, t, m, n)
  BY <1>1, JoinedIs
<1>3. l = m + n /\ \A i \in 1..(m + n) : data[p + i] = u[i]
  BY <1>2 DEF IsJoined, Holds
<1>4. ASSUME NEW i \in 1..m PROVE data[p + i] = s[i]
  <2>1. i \in 1..(m + n)
    BY <1>1
  <2> QED
    BY <1>2, <1>3, <2>1 DEF IsJoined
<1>5. ASSUME NEW i \in 1..n PROVE data[q + i] = t[i]
  <2>1. m + i \in 1..(m + n) /\ p + (m + i) = q + i
    BY <1>1
  <2>2. data[p + (m + i)] = u[m + i]
    BY <1>3, <2>1
  <2>3. u[m + i] = t[i]
    BY <1>2 DEF IsJoined
  <2> QED
    BY <2>1, <2>2, <2>3
<1> QED
  BY <1>1, <1>3, <1>4, <1>5 DEF Holds, HoldsBoth

\* data is a metadata of N bytes, and what is in memory behind it.
LaidOut(data, N, bef, X, alg, Y, aft, Z) ==
  /\ data \in Seq(Nat) /\ data[1] = OBJECT_TAG /\ N = 2 + X + Y + Z /\ N < Len(data)
  /\ X \in Nat /\ Y \in Nat /\ Z \in Nat /\ X + Y + Z > 0
  /\ Holds(data, 2, bef, X) /\ Holds(data, 2 + X, alg, Y) /\ Holds(data, 2 + X + Y, aft, Z)

\* The metadata of a key's object.
LEMMA MetadataIs ==
  ASSUME NEW bef \in Seq(Nat), NEW alg \in Seq(Nat), NEW aft \in Seq(Nat), NEW left \in Seq(Nat), left # <<>>,
         NEW body, body = bef \o alg \o aft, body # <<>>,
         NEW meta, meta = <<OBJECT_TAG, Len(body)>> \o body
  PROVE  LaidOut(meta \o left, Len(meta), bef, Len(bef), alg, Len(alg), aft, Len(aft))
<1> DEFINE X == Len(bef)
           Y == Len(alg)
           Z == Len(aft)
           b == Len(body)
           inner == bef \o alg
           i == Len(inner)
           head == <<OBJECT_TAG, b>>
           N == Len(meta)
           data == meta \o left
           L == Len(left)
           D == Len(data)
           two == 2
           none == 0
<1>1. X = Len(bef) /\ Y = Len(alg) /\ Z = Len(aft) /\ b = Len(body) /\ i = Len(inner) /\ N = Len(meta)
      /\ L = Len(left) /\ D = Len(data) /\ inner = bef \o alg /\ body = inner \o aft /\ meta = head \o body
      /\ data = meta \o left /\ two = 2 /\ none = 0 /\ none \in Nat /\ two \in Nat
  OBVIOUS
<1>2. inner \in Seq(Nat)
  OBVIOUS
<1> HIDE DEF inner
<1>3. body \in Seq(Nat)
  BY <1>1, <1>2
<1>4. b \in Nat /\ b > 0
  BY <1>3
<1>5. head = <<32, b>>
  BY DEF OBJECT_TAG
<1> HIDE DEF b, head
<1>6. head \in Seq(Nat) /\ two = Len(head) /\ head[1] = 32
  BY <1>1, <1>4, <1>5
<1>7. meta \in Seq(Nat)
  <2>1. IsJoined(meta, head, body, two, b)
    BY <1>1, <1>3, <1>4, <1>6, JoinedIs
  <2> QED
    BY <2>1 DEF IsJoined
<1>8. data \in Seq(Nat)
  BY <1>7
<1>9. L \in Nat /\ L > 0
  OBVIOUS
<1> HIDE DEF data
<1>10. Holds(data, none, data, D)
  <2>1. D \in Nat /\ \A j \in 1..D : none + j = j
    BY <1>8
  <2> QED
    BY <1>1, <1>8, <2>1 DEF Holds
<1>a. X \in Nat /\ Y \in Nat /\ Z \in Nat /\ N \in Nat /\ i \in Nat
  <2>1. X \in Nat /\ Y \in Nat /\ Z \in Nat
    OBVIOUS
  <2>2. N \in Nat
    BY <1>7
  <2>3. i \in Nat
    BY <1>2
  <2> QED
    BY <2>1, <2>2, <2>3
<1> DEFINE q == none + N
           r == two + i
           o == two + X
<1> HIDE DEF X, Y, Z, i, N, L, D, two, none
<1>b. q = none + N /\ r = two + i /\ o = two + X /\ two = none + two
  BY <1>1
<1> HIDE DEF q, r, o
<1>11. D = N + L /\ Holds(data, none, meta, N)
  <2>1. HoldsBoth(data, none, meta, N, left, L, D)
    BY <1>1, <1>7, <1>9, <1>10, <1>a, HoldsParts
  <2> QED
    BY <2>1 DEF HoldsBoth
<1>12. N = two + b /\ Holds(data, none, head, two) /\ Holds(data, two, body, b)
  <2>1. HoldsBoth(data, none, head, two, body, b, N)
    BY <1>1, <1>3, <1>4, <1>6, <1>11, HoldsParts
  <2> QED
    BY <1>b, <2>1 DEF HoldsBoth
<1>14. b = i + Z /\ Holds(data, two, inner, i) /\ Holds(data, r, aft, Z)
  <2>1. HoldsBoth(data, two, inner, i, aft, Z, b)
    BY <1>1, <1>2, <1>12, <1>a, HoldsParts
  <2> QED
    BY <1>b, <2>1 DEF HoldsBoth
<1>15. i = X + Y /\ Holds(data, two, bef, X) /\ Holds(data, o, alg, Y)
  <2>1. HoldsBoth(data, two, bef, X, alg, Y, i)
    BY <1>1, <1>14, <1>a, HoldsParts
  <2> QED
    BY <1>b, <2>1 DEF HoldsBoth
<1>16. data[1] = 32
  <2>1. 1 \in 1..two /\ none + 1 = 1
    BY <1>1
  <2>2. data[none + 1] = head[1]
    BY <1>12, <2>1 DEF Holds
  <2> QED
    BY <1>6, <2>1, <2>2
<1>17. two + i = 2 + X + Y /\ N = 2 + X + Y + Z /\ X + Y + Z > 0 /\ N < D
  <2>1. two = 2 /\ i = X + Y /\ b = i + Z /\ N = two + b /\ D = N + L /\ X \in Nat /\ Y \in Nat /\ Z \in Nat
    BY <1>1, <1>11, <1>12, <1>14, <1>15, <1>a
  <2> QED
    BY ONLY <1>4, <1>9, <2>1
<1>18. Holds(data, 2, bef, X) /\ Holds(data, 2 + X, alg, Y) /\ Holds(data, 2 + X + Y, aft, Z)
  BY <1>1, <1>14, <1>15, <1>17, <1>b
<1>19. LaidOut(data, N, bef, X, alg, Y, aft, Z)
  BY <1>1, <1>8, <1>a, <1>16, <1>17, <1>18 DEF LaidOut, OBJECT_TAG
<1> QED
  BY <1>19 DEF data, N, X, Y, Z

\* Without an algorithm the loop finds none.
LEMMA NoAlgorithmFound ==
  ASSUME NEW before \in MetadataEntries, NEW after \in MetadataEntries, NEW data, NEW N, NEW bef, NEW X, NEW alg,
         NEW aft, NEW Z, bef = Encoded(before), aft = Encoded(after), LaidOut(data, N, bef, X, alg, 0, aft, Z)
  PROVE  Walk(data, N).val = 0
<1> DEFINE end == N + 1
           p == 2 + X
           middle == p + 1
<1>1. /\ data[1] = OBJECT_TAG /\ N = 2 + X + 0 + Z /\ X \in Nat /\ Z \in Nat /\ X + 0 + Z > 0
      /\ Holds(data, 2, bef, X) /\ Holds(data, 2 + X + 0, aft, Z)
  BY DEF LaidOut
<1>2. /\ N \in Nat /\ N >= 3 /\ end = N + 1 /\ end \in Nat /\ p \in Nat /\ middle = p + 1 /\ 2 + 1 = 3
      /\ 2 + X + 0 = p /\ 2 + 1 + X = middle /\ p + 1 + Z = end /\ middle \in Nat /\ 3 <= middle /\ middle <= end
      /\ 2 \in Nat /\ 3 \in Nat
  BY <1>1
<1> HIDE DEF end, p, middle
<1>3. PICK B : Chain(data, 3, middle, B)
  <2>1. \E B : Chain(data, 2 + 1, 2 + 1 + X, B)
    BY <1>1, <1>2, EncodedChain
  <2> QED
    BY <1>2, <2>1
<1>4. PICK C : Chain(data, middle, end, C)
  <2>1. Holds(data, p, aft, Z)
    BY <1>1, <1>2
  <2>2. \E C : Chain(data, p + 1, p + 1 + Z, C)
    BY <1>1, <1>2, <2>1, EncodedChain
  <2> QED
    BY <1>2, <2>2
<1> DEFINE A == B \cup C
           V == {LoopStart} \cup {At(b, 0) : b \in A}
<1>5. Chain(data, 3, end, A)
  BY <1>2, <1>3, <1>4, ChainsJoined
<1> HIDE DEF A
<1>6. /\ A \subseteq Nat /\ 3 \in A
      /\ \A b \in A : b # end => data[b] \notin LoopTags /\ data[b + 1] \in Nat /\ b + data[b + 1] + 2 \in A
      /\ \A b \in A : b <= end
  BY <1>5 DEF Chain
<1>7. ASSUME NEW b \in A, b <= N
      PROVE  /\ Iteration(data, N, At(b, 0)) \in V
             /\ Iteration(data, N, At(b, 0)) = At(b + data[b + 1] + 2, 0)
             /\ b + data[b + 1] + 2 > b
  <2>1. b \in Nat /\ b # end
    BY <1>2, <1>6, <1>7
  <2>2. data[b] \notin LoopTags /\ data[b + 1] \in Nat /\ b + data[b + 1] + 2 \in A
    BY <1>6, <2>1
  <2>3. Iteration(data, N, At(b, 0)) = At(b + data[b + 1] + 2, 0)
    BY <1>2, <1>7, <2>1, <2>2, EntrySkipped
  <2> QED
    BY <2>1, <2>2, <2>3
<1>8. Iteration(data, N, LoopStart) = Iteration(data, N, At(3, 0))
  <2>1. 3 # end /\ data[3] \notin LoopTags
    BY <1>2, <1>6
  <2> QED
    BY <1>1, <1>2, <2>1, FirstEntry DEF LoopTags
<1>9. LoopStart.offset = 1 /\ LoopStart.val = 0 /\ \A o : At(o, 0).offset = o /\ At(o, 0).val = 0
  BY DEF LoopStart, At
<1>10. ASSUME NEW at \in V
       PROVE  /\ Iteration(data, N, at) \in V /\ at.offset \in Nat
              /\ at.offset > N \/ Iteration(data, N, at).offset > at.offset
              /\ at.offset > N => Iteration(data, N, at) = at
  <2>1. CASE at = LoopStart
    <3>1. Iteration(data, N, at) = At(3 + data[3 + 1] + 2, 0) /\ Iteration(data, N, at) \in V
          /\ 3 + data[3 + 1] + 2 > 3
      BY <1>2, <1>6, <1>7, <1>8, <2>1
    <3>2. 3 + data[3 + 1] + 2 > 1
      <4>1. 3 # end
        BY <1>2
      <4>2. data[3 + 1] \in Nat
        BY <1>6, <4>1
      <4> QED
        BY <4>2
    <3> QED
      BY <1>2, <1>9, <2>1, <3>1, <3>2
  <2>2. CASE at # LoopStart
    <3>1. PICK b \in A : at = At(b, 0)
      BY <2>2
    <3>2. at.offset = b /\ b \in Nat
      BY <1>6, <1>9, <3>1
    <3>3. CASE b <= N
      BY <1>2, <1>7, <1>9, <3>1, <3>2, <3>3
    <3>4. CASE b > N
      <4>1. Iteration(data, N, at) = at
        BY <1>2, <3>2, <3>4, LoopOver
      <4> QED
        BY <3>2, <3>4, <4>1
    <3> QED
      BY <1>2, <3>2, <3>3, <3>4
  <2> QED
    BY <2>1, <2>2
<1>11. \A at \in V : at.val = 0
  BY <1>9
<1>12. LoopStart \in V
  OBVIOUS
<1> HIDE DEF V
<1>13. Walk(data, N) \in V
  <2>1. \A at \in V : Iteration(data, N, at) \in V /\ at.offset \in Nat
    BY <1>10
  <2>2. \A at \in V : at.offset > N \/ Iteration(data, N, at).offset > at.offset
    BY <1>10
  <2>3. \A at \in V : at.offset > N => Iteration(data, N, at) = at
    BY <1>10
  <2> QED
    BY <1>2, <1>12, <2>1, <2>2, <2>3, WalkEnds
<1> QED
  BY <1>11, <1>13

\* From an index on, a sequence has no byte that is a tag the loop looks for.
FreeOfTags(s, from) == \A i \in from..Len(s) : s[i] \notin LoopTags

\* The loop's value is the one at q, where the algorithm a is with its length.
Found(data, N, q, a) ==
  Walk(data, N).val = ValueAt(data, q, 0) /\ data[q] = Len(a) /\ \A i \in 1..Len(a) : data[q + i] = a[i]

\* With an algorithm the loop finds it, and reads no other value behind it.
LEMMA AlgorithmIsFound ==
  ASSUME NEW before \in MetadataEntries, NEW a \in Seq(Nat), NEW data, NEW N, NEW bef, NEW X, NEW alg, NEW Y,
         NEW aft, NEW Z, bef = Encoded(before), IsEntry(alg, KEY_ALGO_IDFR_TAG, a, Len(a)), aft \in Seq(Nat),
         LaidOut(data, N, bef, X, alg, Y, aft, Z), Len(a) \notin LoopTags \cup {0},
         NEW rest, rest = a \o aft, FreeOfTags(rest, a[1] + 2)
  PROVE  Found(data, N, X + 4, a)
<1> DEFINE l == Len(a)
           middle == X + 3
           q == X + 4
           w == ValueAt(data, q, 0)
           p == 2 + X
           next == q + data[q + 1] + 2
           first == a[1]
<1>1. /\ data \in Seq(Nat) /\ data[1] = OBJECT_TAG /\ N = 2 + X + Y + Z /\ N < Len(data)
      /\ X \in Nat /\ Y \in Nat /\ Z \in Nat
      /\ Holds(data, 2, bef, X) /\ Holds(data, 2 + X, alg, Y) /\ Holds(data, 2 + X + Y, aft, Z)
  BY DEF LaidOut
<1>2. /\ alg \in Seq(Nat) /\ Len(alg) = 2 + l /\ l \in Nat
      /\ alg[1] = KEY_ALGO_IDFR_TAG /\ alg[2] = l /\ \A i \in 1..l : alg[2 + i] = a[i]
  BY DEF IsEntry
<1>3. /\ Y = 2 + l /\ \A i \in 1..Y : data[p + i] = alg[i]
      /\ Len(aft) = Z /\ \A i \in 1..Z : data[2 + X + Y + i] = aft[i]
  BY <1>1, <1>2 DEF Holds
<1>4. l # 0 /\ l \notin LoopTags
  OBVIOUS
<1>5. first \in Nat
  <2>1. 1 \in 1..l
    BY <1>2, <1>4
  <2> QED
    BY <2>1
<1>6. l = Len(a) /\ middle = X + 3 /\ q = X + 4 /\ p = 2 + X /\ next = q + data[q + 1] + 2 /\ first = a[1]
      /\ w = ValueAt(data, q, 0)
  OBVIOUS
<1> HIDE DEF l, middle, q, w, p, next, first
<1>7. /\ N \in Nat /\ N >= 3 /\ middle \in Nat /\ q \in Nat /\ p \in Nat /\ p + 1 = middle /\ p + 2 = q
      /\ middle + 1 = q /\ 3 <= middle /\ middle <= N /\ q + 1 <= N /\ 2 + X + Y = q + l /\ N = q + l + Z
  <2>1. l \in Nat /\ l > 0
    BY <1>2, <1>4
  <2>2. X \in Nat /\ Z \in Nat /\ N = 2 + X + Y + Z /\ Y = 2 + l
    BY <1>1, <1>3
  <2>3. middle = X + 3 /\ q = X + 4 /\ p = 2 + X
    BY <1>6
  <2> QED
    BY ONLY <2>1, <2>2, <2>3
<1>8. data[middle] = KEY_ALGO_IDFR_TAG /\ data[q] = l
  <2>1. 1 \in 1..Y /\ 2 \in 1..Y
    BY <1>2, <1>3
  <2> QED
    BY <1>2, <1>3, <1>7, <2>1
<1>9. ASSUME NEW i \in 1..l PROVE data[q + i] = a[i]
  <2>1. 2 + i \in 1..Y /\ p + (2 + i) = q + i
    BY <1>2, <1>3, <1>6, <1>7
  <2>2. data[p + (2 + i)] = alg[2 + i]
    BY <1>3, <2>1
  <2> QED
    BY <1>2, <2>1, <2>2
<1>10. data[q + 1] = first
  <2>1. 1 \in 1..l
    BY <1>2, <1>4
  <2> QED
    BY <1>6, <1>9, <2>1
<1>a. \A i \in (first + 2)..Len(rest) : rest[i] \notin LoopTags
  BY <1>6 DEF FreeOfTags
<1>11. IsJoined(rest, a, aft, l, Z)
  BY <1>1, <1>2, <1>3, <1>6, JoinedIs
<1>12. Len(rest) = l + Z
  BY <1>11 DEF IsJoined
<1>13. ASSUME NEW i \in 1..(l + Z) PROVE data[q + i] = rest[i]
  <2>0. i \in Nat /\ l \in Nat /\ Z \in Nat
    BY <1>1, <1>2
  <2>1. CASE i <= l
    <3>1. i \in 1..l
      BY <2>0, <2>1
    <3>2. rest[i] = a[i]
      BY <1>11, <3>1 DEF IsJoined
    <3> QED
      BY <1>9, <3>1, <3>2
  <2>2. CASE ~(i <= l)
    <3> DEFINE j == i - l
    <3>1. j \in 1..Z /\ l + j = i /\ 2 + X + Y + j = q + i
      BY <1>7, <2>0, <2>2
    <3> HIDE DEF j
    <3>2. rest[l + j] = aft[j]
      BY <1>11, <3>1 DEF IsJoined
    <3>3. data[2 + X + Y + j] = aft[j]
      BY <1>3, <3>1
    <3> QED
      BY <3>1, <3>2, <3>3
  <2> QED
    BY <2>1, <2>2
<1>14. next = q + first + 2 /\ next \in Nat
  <2>1. next = q + data[q + 1] + 2
    BY <1>6
  <2>2. next = q + first + 2
    BY <1>10, <2>1
  <2>3. q \in Nat
    BY <1>7
  <2> QED
    BY <1>5, <2>2, <2>3
<1>15. ASSUME NEW o \in Nat, o >= next, o <= N PROVE data[o] \notin LoopTags /\ data[o + 1] \in Nat
  <2> DEFINE i == o - q
  <2>1. i \in (first + 2)..(l + Z) /\ i \in 1..(l + Z) /\ q + i = o
    BY <1>1, <1>2, <1>5, <1>7, <1>14, <1>15
  <2> HIDE DEF i
  <2>2. rest[i] \notin LoopTags
    BY <1>a, <1>12, <2>1
  <2>3. data[o] \notin LoopTags
    BY <1>13, <2>1, <2>2
  <2>4. o + 1 \in 1..Len(data)
    BY <1>1, <1>7, <1>15
  <2>5. data[o + 1] \in Nat
    <3>1. data \in Seq(Nat)
      BY <1>1
    <3> QED
      BY <2>4, <3>1
  <2> QED
    BY <2>3, <2>5
<1>16. PICK B : Chain(data, 3, middle, B)
  <2>1. \E B : Chain(data, 2 + 1, 2 + 1 + X, B)
    <3>1. 2 \in Nat
      OBVIOUS
    <3> QED
      BY <1>1, <3>1, EncodedChain
  <2>2. 2 + 1 = 3 /\ 2 + 1 + X = middle
    BY <1>1, <1>6
  <2> QED
    BY <2>1, <2>2
<1>17. /\ B \subseteq Nat /\ 3 \in B
       /\ \A b \in B : b # middle => data[b] \notin LoopTags /\ data[b + 1] \in Nat /\ b + data[b + 1] + 2 \in B
       /\ \A b \in B : b <= middle
  BY <1>16 DEF Chain
<1> DEFINE T == {q} \cup {o \in Nat : o >= next}
           V == {LoopStart} \cup {At(b, 0) : b \in B} \cup {At(o, w) : o \in T}
<1>18. ASSUME NEW b \in B
       PROVE  /\ b \in Nat /\ b <= N /\ Iteration(data, N, At(b, 0)) \in V
              /\ \E o \in Nat : \E v : Iteration(data, N, At(b, 0)) = At(o, v) /\ o > b
  <2>0. b \in Nat /\ b <= N
    BY <1>7, <1>17
  <2>1. CASE b = middle
    <3>1. Iteration(data, N, At(b, 0)) = At(b + 1, ValueAt(data, b + 1, 0))
      BY <1>7, <1>8, <2>0, <2>1, AlgorithmRead
    <3>2. b + 1 = q /\ Iteration(data, N, At(b, 0)) = At(q, w)
      BY <1>6, <1>7, <2>1, <3>1
    <3>3. q > b
      BY <1>7, <2>1
    <3> QED
      BY <1>7, <2>0, <3>2, <3>3
  <2>2. CASE b # middle
    <3> DEFINE o == b + data[b + 1] + 2
    <3>1. data[b] \notin LoopTags /\ data[b + 1] \in Nat /\ o \in B
      BY <1>17, <2>2
    <3>a. N \in Nat
      BY <1>7
    <3>2. Iteration(data, N, At(b, 0)) = At(o, 0)
      BY <2>0, <3>1, <3>a, EntrySkipped
    <3>3. o \in Nat /\ o > b
      BY <2>0, <3>1
    <3> HIDE DEF o
    <3> QED
      BY <2>0, <3>1, <3>2, <3>3
  <2> QED
    BY <2>1, <2>2
<1>19. ASSUME NEW o \in T, o <= N
       PROVE  /\ Iteration(data, N, At(o, w)) \in V
              /\ \E u \in Nat : Iteration(data, N, At(o, w)) = At(u, w) /\ u > o
  <2> DEFINE u == o + data[o + 1] + 2
  <2>1. o \in Nat /\ data[o] \notin LoopTags /\ data[o + 1] \in Nat
    <3>1. CASE o = q
      BY <1>4, <1>5, <1>7, <1>8, <1>10, <3>1
    <3>2. CASE o # q
      BY <1>15, <1>19, <3>2
    <3> QED
      BY <3>1, <3>2
  <2>a. N \in Nat /\ o <= N
    BY <1>7, <1>19
  <2>2. Iteration(data, N, At(o, w)) = At(u, w)
    BY <2>1, <2>a, EntrySkipped
  <2>3. u \in Nat /\ u > o
    BY <2>1
  <2>4. u >= next
    <3>1. CASE o = q
      BY <1>6, <1>7, <1>14, <3>1
    <3>2. CASE o # q
      BY <1>14, <2>1, <2>3, <3>2
    <3> QED
      BY <3>1, <3>2
  <2> HIDE DEF u
  <2> QED
    BY <2>2, <2>3, <2>4
<1>20. Iteration(data, N, LoopStart) = Iteration(data, N, At(3, 0))
  <2>1. data[3] # OBJECT_TAG
    <3>1. CASE middle = 3
      BY <1>8, <3>1 DEF KEY_ALGO_IDFR_TAG, OBJECT_TAG
    <3>2. CASE middle # 3
      BY <1>17, <3>2 DEF LoopTags
    <3> QED
      BY <3>1, <3>2
  <2> QED
    BY <1>1, <1>7, <2>1, FirstEntry
<1>21. LoopStart.offset = 1 /\ \A o, v : At(o, v).offset = o /\ At(o, v).val = v
  BY DEF LoopStart, At
<1> HIDE DEF T
<1>22. T \subseteq Nat
  BY <1>7 DEF T
<1>23. ASSUME NEW at \in V
       PROVE  /\ Iteration(data, N, at) \in V /\ at.offset \in Nat
              /\ at.offset > N \/ Iteration(data, N, at).offset > at.offset
              /\ at.offset > N => Iteration(data, N, at) = at /\ at.val = w
  <2>1. CASE at = LoopStart
    <3>1. Iteration(data, N, at) \in V /\ \E o \in Nat : \E v : Iteration(data, N, at) = At(o, v) /\ o > 3
      BY <1>17, <1>18, <1>20, <2>1
    <3>2. PICK o \in Nat : \E v : Iteration(data, N, at) = At(o, v) /\ o > 3
      BY <3>1
    <3> HIDE DEF V
    <3> QED
      BY <1>7, <1>21, <2>1, <3>1, <3>2
  <2>2. ASSUME NEW b \in B, at = At(b, 0)
        PROVE  /\ Iteration(data, N, at) \in V /\ at.offset \in Nat /\ ~(at.offset > N)
               /\ Iteration(data, N, at).offset > at.offset
    <3>1. b \in Nat /\ b <= N /\ Iteration(data, N, at) \in V
      BY <1>18, <2>2
    <3>2. PICK o \in Nat : \E v : Iteration(data, N, at) = At(o, v) /\ o > b
      BY <1>18, <2>2
    <3> HIDE DEF V
    <3> QED
      BY <1>7, <1>21, <2>2, <3>1, <3>2
  <2>3. ASSUME NEW o \in T, at = At(o, w)
        PROVE  /\ Iteration(data, N, at) \in V /\ at.offset \in Nat
               /\ at.offset > N \/ Iteration(data, N, at).offset > at.offset
               /\ at.offset > N => Iteration(data, N, at) = at /\ at.val = w
    <3>0. at.offset = o /\ at.val = w /\ o \in Nat
      BY <1>21, <1>22, <2>3
    <3>1. CASE o <= N
      <4>1. Iteration(data, N, at) \in V
        BY <1>19, <2>3, <3>1
      <4>2. PICK u \in Nat : Iteration(data, N, at) = At(u, w) /\ u > o
        BY <1>19, <2>3, <3>1
      <4> HIDE DEF V
      <4> QED
        BY <1>7, <1>21, <3>0, <3>1, <4>1, <4>2
    <3>2. CASE o > N
      <4>1. Iteration(data, N, at) = at
        BY <1>7, <3>0, <3>2, LoopOver
      <4> QED
        BY <3>0, <3>2, <4>1
    <3> QED
      BY <1>7, <3>0, <3>1, <3>2
  <2>4. at = LoopStart \/ (\E b \in B : at = At(b, 0)) \/ (\E o \in T : at = At(o, w))
    OBVIOUS
  <2> HIDE DEF V
  <2> QED
    BY <2>1, <2>2, <2>3, <2>4
<1>24. LoopStart \in V
  OBVIOUS
<1> HIDE DEF V
<1>25. Walk(data, N) \in V /\ Walk(data, N).offset > N
  <2>1. \A at \in V : Iteration(data, N, at) \in V /\ at.offset \in Nat
    BY <1>23
  <2>2. \A at \in V : at.offset > N \/ Iteration(data, N, at).offset > at.offset
    BY <1>23
  <2>3. \A at \in V : at.offset > N => Iteration(data, N, at) = at
    BY <1>23
  <2> QED
    BY <1>7, <1>24, <2>1, <2>2, <2>3, WalkEnds
<1> QED
  BY <1>6, <1>8, <1>9, <1>23, <1>25 DEF Found

\* The algorithm of a key is found in its metadata.
LEMMA AlgorithmsFound == AlgorithmFound
<1> SUFFICES ASSUME NEW m \in KeyObjects, NEW left \in Leftovers
             PROVE  prvGetKeyAlgorithm(Metadata(m) \o left, Len(Metadata(m)))
                      = IF m.algorithm = <<>> THEN 0 ELSE ValueAt(Entry(0, m.algorithm), 2, 0)
  BY DEF AlgorithmFound
<1> DEFINE a == m.algorithm
           bef == Encoded(m.before)
           alg == AlgorithmEntry(m)
           aft == Encoded(m.after)
           body == Body(m)
           meta == Metadata(m)
           data == meta \o left
           N == Len(meta)
           X == Len(bef)
           Y == Len(alg)
           Z == Len(aft)
           rest == a \o aft
<1>1. m.before \in Befores /\ m.after \in Afters /\ a \in Algorithms \cup {<<>>} /\ body # <<>>
  BY DEF KeyObjects
<1>2. m.before \in MetadataEntries /\ m.after \in MetadataEntries
  BY <1>1, MetadataAssumption DEF MetadataEntries
<1>3. left \in Seq(Nat) /\ left # <<>>
  BY EncodingAssumption
<1>4. bef \in Seq(Nat) /\ aft \in Seq(Nat)
  BY <1>2, EncodedBytes
<1>5. a # <<>> => /\ a \in Algorithms /\ a \in Seq(Nat) /\ Len(a) \notin LoopTags \cup {0}
                  /\ FreeOfTags(rest, a[1] + 2)
  BY <1>1, MetadataAssumption DEF FreeOfTags
<1>6. a # <<>> => alg = Entry(KEY_ALGO_IDFR_TAG, a) /\ IsEntry(alg, KEY_ALGO_IDFR_TAG, a, Len(a))
  <2>1. KEY_ALGO_IDFR_TAG \in Nat
    BY DEF KEY_ALGO_IDFR_TAG
  <2> QED
    BY <1>5, <2>1, EntryIs DEF AlgorithmEntry
<1>7. a = <<>> => alg = <<>>
  BY DEF AlgorithmEntry
<1>8. alg \in Seq(Nat)
  <2>1. CASE a = <<>>
    BY <1>7, <2>1
  <2>2. CASE a # <<>>
    BY <1>6, <2>2 DEF IsEntry
  <2> QED
    BY <2>1, <2>2
<1>9. body = bef \o alg \o aft /\ meta = <<OBJECT_TAG, Len(body)>> \o body /\ rest = a \o aft
  BY DEF Body, Metadata
<1>10. prvGetKeyAlgorithm(data, N) = Walk(data, N).val
  BY DEF prvGetKeyAlgorithm
<1>11. LaidOut(data, N, bef, X, alg, Y, aft, Z)
  <2> HIDE DEF bef, alg, aft, body, meta
  <2> QED
    BY <1>1, <1>3, <1>4, <1>8, <1>9, MetadataIs
<1>12. bef = Encoded(m.before) /\ aft = Encoded(m.after) /\ Y = Len(alg)
  OBVIOUS
<1> HIDE DEF bef, alg, aft, body, meta, data, N, X, Y, Z, rest
<1>13. CASE a = <<>>
  <2>1. Y = 0
    BY <1>7, <1>12, <1>13
  <2>2. Walk(data, N).val = 0
    BY <1>2, <1>11, <1>12, <2>1, NoAlgorithmFound
  <2> QED
    BY <1>10, <1>13, <2>2 DEF data, meta, N
<1>14. CASE a # <<>>
  <2> DEFINE q == X + 4
             e == Entry(0, a)
             l == Len(a)
  <2>1. /\ Walk(data, N).val = ValueAt(data, q, 0)
        /\ (\A i \in 1..l : data[q + i] = a[i]) /\ data[q] = l
    <3>1. /\ a \in Seq(Nat) /\ Len(a) \notin LoopTags \cup {0} /\ FreeOfTags(rest, a[1] + 2)
          /\ IsEntry(alg, KEY_ALGO_IDFR_TAG, a, Len(a))
      BY <1>5, <1>6, <1>14
    <3>2. Found(data, N, X + 4, a)
      BY <1>2, <1>4, <1>9, <1>11, <1>12, <3>1, AlgorithmIsFound
    <3> QED
      BY <3>2 DEF Found
  <2>2. e \in Seq(Nat) /\ e[2] = l /\ l \in Nat /\ \A i \in 1..l : e[2 + i] = a[i]
    <3>1. IsEntry(e, 0, a, l)
      BY <1>5, <1>14, EntryIs
    <3> QED
      BY <3>1 DEF IsEntry
  <2> HIDE DEF q, e, l
  <2>3. l # 0
    BY <1>5, <1>14 DEF l
  <2>4. ValueAt(data, q, 0) = ValueAt(e, 2, 0)
    <3>1. 1 \in 1..l /\ (l \in {2, 4} => 2 \in 1..l)
      BY <2>2, <2>3
    <3>2. data[q] = e[2] /\ data[q + 1] = e[2 + 1] /\ (l \in {2, 4} => data[q + 2] = e[2 + 2])
      BY <2>1, <2>2, <3>1
    <3>3. CASE l = 1
      BY <2>1, <3>2, <3>3 DEF ValueAt
    <3>4. CASE l \in {2, 4}
      BY <2>1, <3>2, <3>4 DEF ValueAt
    <3>5. CASE l # 1 /\ l \notin {2, 4}
      BY <2>1, <3>2, <3>5 DEF ValueAt
    <3> QED
      BY <3>3, <3>4, <3>5
  <2> QED
    BY <1>10, <1>14, <2>1, <2>4 DEF data, meta, N, e
<1> QED
  BY <1>13, <1>14

\* What the layer reads out of the chip's answers is what the chip has put in, for every radix of its
\* bytes, every length of a component, every signature and every metadata: the components of a
\* signature at full length, nothing out of a string that is none, and the algorithm of a key.
THEOREM AnswersReadRight == Spec => []AnswersRead
<1>1. AnswersRead
  BY SignaturesRead, AcceptedStringsWhole, AlgorithmsFound DEF AnswersRead
<1> QED
  BY <1>1, PTL
=============================================================================
