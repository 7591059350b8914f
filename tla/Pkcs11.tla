-------------------------------- MODULE Pkcs11 --------------------------------
(***************************************************************************)
(* The PKCS#11 layer over the OPTIGA secure element,                       *)
(* source/SECURE_SOCKET_OPTIGA_ALT/pkcs11_optiga_trustm.c: one context     *)
(* shared by all callers, with a mutex, one completion status for every    *)
(* operation of the chip, and the list of the objects found so far.        *)
(*                                                                         *)
(* External: the OPTIGA library answers each accepted operation at most    *)
(* once, through optiga_callback(), at any later time, and refuses an      *)
(* operation on an instance that has not answered yet.  Callers keep to    *)
(* the PKCS#11 rules: one thread to a session, C_Initialize and C_Finalize *)
(* while nothing else runs, and no function before C_Initialize succeeds.  *)
(***************************************************************************)
EXTENDS Naturals

CONSTANTS
  Callers,                        \* threads that use the layer
  Uses,                           \* the operations, objects and mechanisms each asks for
  pkcs11configMAX_NUM_OBJECTS,    \* length of the object list
  PKCS11_OPTIGA_WAIT_COUNTER_MAX, \* polls before a wait gives up
  KeyAlgorithm,                   \* of the private key in the chip
  MAX_ORPHANS                     \* bound: unanswered calls of destroyed instances

Operations == {"find", "value", "keytype", "sign", "random"}
Labels     == {"private_key", "certificate", "root"}
Mechanisms == {"CKM_ECDSA", "CKM_RSA_PKCS"}
KeyTypes   == {"EC", "RSA", "unknown"}
Instances  == {"optigaUtilInst", "optigaCryptInst"}

ASSUME CallersAssumption ==
  /\ {"none", "free", "nobody", "abandoned"} \cap Callers = {}
  /\ Uses \in [Callers -> SUBSET (Operations \cup Labels \cup Mechanisms)]
ASSUME ListAssumption   == pkcs11configMAX_NUM_OBJECTS \in Nat /\ pkcs11configMAX_NUM_OBJECTS >= 3
ASSUME WaitAssumption   == PKCS11_OPTIGA_WAIT_COUNTER_MAX \in Nat \ {0}
ASSUME OrphanAssumption == MAX_ORPHANS \in Nat
ASSUME KeyAssumption    == KeyAlgorithm \in {"EC", "RSA"}

VARIABLES
  \* the layer's context
  xIsInitialized, xOptigaMutex, optigaLibStatus, waitCounter, xObjects, instances,
  \* the chip: who waits for the answer of each instance; answers nobody waits for
  running, orphans,
  \* each caller: its session, the handles it was given, and where it is
  session, handle, pc, op, object,
  \* what became of its last chip operation: according to the chip, and to the layer
  chip, accepted,
  \* callers whose status has been written by something else than their operation
  disturbed

context_vars == <<xIsInitialized, xOptigaMutex, optigaLibStatus, waitCounter, xObjects, instances>>
caller_vars  == <<session, handle, pc, op, object, chip, accepted>>
vars == <<context_vars, running, orphans, caller_vars, disturbed>>

Slots      == 1..pkcs11configMAX_NUM_OBJECTS
PalHandles == {"DevicePrivateKey", "DeviceCertificate", "RootCertificate"}
Empty      == [xHandle |-> "InvalidHandle", xLabel |-> "none"]
ObjectRecords  == [xHandle : PalHandles \cup {"InvalidHandle"}, xLabel : Labels \cup {"none"}]
SessionRecords ==
  [xOpened : BOOLEAN, pxFindObjectLabel : Labels \cup {"none"}, xSignMechanism : Mechanisms \cup {"none"},
   xSignKeyOid : Labels \cup {"none"}, xKeyType : KeyTypes]
Closed     == [xOpened |-> FALSE, pxFindObjectLabel |-> "none", xSignMechanism |-> "none",
               xSignKeyOid |-> "none", xKeyType |-> "unknown"]
NoHandles  == [l \in Labels |-> 0]

ContextTypeOK ==
  /\ xIsInitialized \in BOOLEAN
  /\ xOptigaMutex \in {"none", "free"} \cup Callers
  /\ optigaLibStatus \in {"busy", "success", "error"}
  /\ waitCounter \in 0..PKCS11_OPTIGA_WAIT_COUNTER_MAX
  /\ xObjects \in [Slots -> ObjectRecords]
  /\ instances \subseteq Instances
ChipTypeOK ==
  /\ running \in [Instances -> Callers \cup {"nobody", "abandoned"}]
  /\ orphans \in 0..MAX_ORPHANS
  /\ chip \in [Callers -> {"none", "refused", "pending", "success", "error"}]
  /\ accepted \in [Callers -> BOOLEAN]
  /\ disturbed \subseteq Callers
SessionTypeOK ==
  /\ session \in [Callers -> SessionRecords]
  /\ handle \in [Callers -> [Labels -> 0..pkcs11configMAX_NUM_OBJECTS]]
ProgressTypeOK ==
  /\ pc \in [Callers -> {"idle", "lock", "call", "test", "delay", "check", "add", "return"}]
  /\ op \in [Callers -> Operations \cup {"none", "open"}]
  /\ object \in [Callers -> PalHandles \cup {"InvalidHandle"}]
TypeOK == ContextTypeOK /\ ChipTypeOK /\ SessionTypeOK /\ ProgressTypeOK

Init ==
  /\ xIsInitialized = FALSE /\ xOptigaMutex = "none"
  /\ optigaLibStatus = "success" /\ waitCounter = 0     \* static storage: OPTIGA_LIB_SUCCESS is 0
  /\ xObjects = [s \in Slots |-> Empty] /\ instances = {}
  /\ running = [i \in Instances |-> "nobody"] /\ orphans = 0
  /\ session = [c \in Callers |-> Closed] /\ handle = [c \in Callers |-> NoHandles]
  /\ pc = [c \in Callers |-> "idle"] /\ op = [c \in Callers |-> "none"]
  /\ object = [c \in Callers |-> "InvalidHandle"]
  /\ chip = [c \in Callers |-> "none"] /\ accepted = [c \in Callers |-> FALSE]
  /\ disturbed = {}

-----------------------------------------------------------------------------
(* The completion status *)

Waiting == {c \in Callers : pc[c] \in {"call", "test", "delay", "check"}}

\* A write of the status by, or on behalf of, c ("nobody": of a caller that has given up).
WriteStatus(c, value) ==
  /\ optigaLibStatus' = value
  /\ disturbed' = disturbed \cup (Waiting \ {c})

\* P11CTX_SET_OPTIGA_LIB_STATUS_BUSY, at the start of an operation of c.
SetBusy(c) ==
  /\ optigaLibStatus' = "busy"
  /\ disturbed' = (disturbed \cup Waiting) \ {c}

InstanceOf(c) == IF op[c] \in {"sign", "random"} THEN "optigaCryptInst" ELSE "optigaUtilInst"

Goto(c, point) == pc' = [pc EXCEPT ![c] = point]
Return(c) == Goto(c, "return")

\* Where a new operation of c begins.
Begin(c, o, pal, point) ==
  /\ op' = [op EXCEPT ![c] = o]
  /\ object' = [object EXCEPT ![c] = pal]
  /\ Goto(c, point)

-----------------------------------------------------------------------------
(* Initialisation *)

Quiescent == \A c \in Callers : pc[c] = "idle"

\* C_Finalize() of what the context holds; the mutex is destroyed with it.
Finalize ==
  /\ instances' = {}
  /\ xIsInitialized' = FALSE
  /\ xOptigaMutex' = "none"

\* Mutant: the context is taken over as C_Finalize has left it.
KeepContext == UNCHANGED <<xObjects, waitCounter>>
\* memset() of the context, and with it of the list of the objects found before.
ClearContext == xObjects' = [s \in Slots |-> Empty] /\ waitCounter' = 0

\* C_Initialize -> prvOptiga_Initialize, up to optiga_util_open_application().
\* The mutex, or one of the instances, may fail to be created; what exists is then
\* given back at once, except that a failed mutex leaves nothing to give back.
C_Initialize(c) ==
  /\ Quiescent /\ ~xIsInitialized /\ orphans < MAX_ORPHANS
  /\ ClearContext
  /\ \/ /\ Finalize
        /\ optigaLibStatus' \in {"success", "error"}
        /\ UNCHANGED <<pc, op, object, disturbed>>
     \/ /\ instances' = Instances
        /\ xOptigaMutex' = c
        /\ SetBusy(c)
        /\ Begin(c, "open", "InvalidHandle", "call")
        /\ UNCHANGED xIsInitialized
  /\ UNCHANGED <<running, orphans, session, handle, chip, accepted>>

\* Answers still owed to the instances: once these are destroyed, nobody waits for them.
Owed(i) == IF running[i] = "abandoned" THEN 1 ELSE 0
OwedAnswers == Owed("optigaUtilInst") + Owed("optigaCryptInst")

\* C_Finalize called by the application, which forgets its sessions and handles.
C_Finalize ==
  /\ Quiescent /\ xIsInitialized
  /\ orphans + OwedAnswers <= MAX_ORPHANS
  /\ Finalize
  /\ orphans' = orphans + OwedAnswers
  /\ running' = [i \in Instances |-> "nobody"]
  /\ session' = [d \in Callers |-> Closed]
  /\ handle' = [d \in Callers |-> NoHandles]
  /\ UNCHANGED <<optigaLibStatus, waitCounter, xObjects, pc, op, object, chip, accepted, disturbed>>

-----------------------------------------------------------------------------
(* Sessions.  A call that fails an argument or state check changes nothing and *)
(* is left out.                                                                *)

\* PKCS11_MODULE_IS_INITIALIZED, PKCS11_SESSION_IS_OPEN
Ready(c)  == pc[c] = "idle" /\ xIsInitialized
InUse(c)  == Ready(c) /\ session[c].xOpened

C_OpenSession(c) ==
  /\ Ready(c) /\ ~session[c].xOpened
  /\ session' = [session EXCEPT ![c] = [Closed EXCEPT !.xOpened = TRUE]]
  /\ UNCHANGED <<context_vars, running, orphans, handle, pc, op, object, chip, accepted, disturbed>>

C_CloseSession(c) ==
  /\ InUse(c)
  /\ session' = [session EXCEPT ![c] = Closed]
  /\ UNCHANGED <<context_vars, running, orphans, handle, pc, op, object, chip, accepted, disturbed>>

C_FindObjectsInit(c, label) ==
  /\ InUse(c) /\ {"find", label} \subseteq Uses[c]
  /\ session[c].pxFindObjectLabel = "none"
  /\ session' = [session EXCEPT ![c].pxFindObjectLabel = label]
  /\ UNCHANGED <<context_vars, running, orphans, handle, pc, op, object, chip, accepted, disturbed>>

C_FindObjectsFinal(c) ==
  /\ InUse(c) /\ session[c].pxFindObjectLabel # "none"
  /\ session' = [session EXCEPT ![c].pxFindObjectLabel = "none"]
  /\ UNCHANGED <<context_vars, running, orphans, handle, pc, op, object, chip, accepted, disturbed>>

-----------------------------------------------------------------------------
(* The object list *)

\* prvFindObject
prvFindObject(label) ==
  CASE label = "private_key" -> "DevicePrivateKey"
    [] label = "certificate" -> "DeviceCertificate"
    [] label = "root"        -> "RootCertificate"

\* prvFindObjectInListByLabel, falling back on prvFindObject.
ListedAs(label) == {s \in Slots : xObjects[s].xLabel = label}
PalHandleOf(label) ==
  IF ListedAs(label) = {} THEN prvFindObject(label)
  ELSE xObjects[CHOOSE s \in ListedAs(label) : \A t \in ListedAs(label) : s <= t].xHandle

\* C_FindObjects: the list and the fixed labels are searched without the mutex; a
\* certificate is then read from the chip before it is listed, a private key is not.
C_FindObjects(c) ==
  /\ InUse(c) /\ session[c].pxFindObjectLabel # "none"
  /\ LET pal == PalHandleOf(session[c].pxFindObjectLabel) IN
     Begin(c, "find", pal, IF pal = "DevicePrivateKey" THEN "add" ELSE "lock")
  /\ UNCHANGED <<context_vars, running, orphans, session, handle, chip, accepted, disturbed>>

\* Mutant: the list is not searched for the object first.
HoldingNothing(pal) == IF pal = "InvalidHandle" THEN {s \in Slots : xObjects[s] = Empty} ELSE {}
\* The slots with a PAL handle, CK_INVALID_HANDLE being that of a free slot.
Holding(pal) == {s \in Slots : xObjects[s].xHandle = pal}

\* Mutant: the index is returned instead of index + 1.
GiveIndex(c, slot) == handle' = [handle EXCEPT ![c][session[c].pxFindObjectLabel] = slot - 1]
\* *pxAppHandle = index + 1; slots count from 1 here.
GiveHandle(c, slot) == handle' = [handle EXCEPT ![c][session[c].pxFindObjectLabel] = slot]

\* prvAddObjectToList, from taking the mutex to giving it back: the readers of the
\* list that do without it cannot tell a half-written slot from an empty one.  A full
\* list cannot miss one of the three objects (ListAssumption).
prvAddObjectToList(c) ==
  /\ pc[c] = "add" /\ xOptigaMutex = "free"
  /\ \/ \E s \in Holding(object[c]) :
           /\ \A t \in Holding(object[c]) : t <= s     \* the search runs from the last slot down
           /\ GiveHandle(c, s)
           /\ UNCHANGED xObjects
     \/ \E s \in Holding("InvalidHandle") :
           /\ Holding(object[c]) = {}
           /\ \A t \in Holding("InvalidHandle") : s <= t
           /\ xObjects' = [xObjects EXCEPT ![s] =
                [xHandle |-> object[c], xLabel |-> session[c].pxFindObjectLabel]]
           /\ GiveHandle(c, s)
  /\ Return(c)
  /\ UNCHANGED <<xIsInitialized, xOptigaMutex, optigaLibStatus, waitCounter, instances,
                 running, orphans, session, op, object, chip, accepted, disturbed>>

\* prvFindObjectInListByHandle
ObjectOf(h) == IF h \in Slots THEN xObjects[h] ELSE Empty

-----------------------------------------------------------------------------
(* Operations that need the chip *)

\* C_GetAttributeValue, CKA_VALUE of a certificate: prvGetObjectValue.
GetValue(c, label) ==
  /\ InUse(c) /\ {"value", label} \subseteq Uses[c]
  /\ ObjectOf(handle[c][label]).xHandle \in {"DeviceCertificate", "RootCertificate"}
  /\ Begin(c, "value", ObjectOf(handle[c][label]).xHandle, "lock")
  /\ UNCHANGED <<context_vars, running, orphans, session, handle, chip, accepted, disturbed>>

\* C_GetAttributeValue, CKA_KEY_TYPE of the private key: prvGetKeyAlgorithm, which
\* uses the status without taking the mutex.
GetKeyType(c) ==
  /\ InUse(c) /\ "keytype" \in Uses[c]
  /\ ObjectOf(handle[c]["private_key"]).xHandle = "DevicePrivateKey"
  /\ SetBusy(c)
  /\ Begin(c, "keytype", "DevicePrivateKey", "call")
  /\ UNCHANGED <<xIsInitialized, xOptigaMutex, waitCounter, xObjects, instances,
                 running, orphans, session, handle, chip, accepted>>

\* C_SignInit: the key's OID is taken over only for the private key, but any listed
\* object is accepted.
C_SignInit(c, label, mechanism) ==
  LET obj == ObjectOf(handle[c][label]) IN
  /\ InUse(c) /\ {"sign", label, mechanism} \subseteq Uses[c]
  /\ obj.xHandle # "InvalidHandle"
  /\ session' = [session EXCEPT
       ![c].xSignKeyOid = IF obj.xHandle = "DevicePrivateKey" THEN obj.xLabel ELSE @,
       ![c].xSignMechanism = mechanism]
  /\ UNCHANGED <<context_vars, running, orphans, handle, pc, op, object, chip, accepted, disturbed>>

\* The mechanism and the key type that C_Sign accepts; without C_SignInit it goes on,
\* and the chip is not asked (see Refuse).
KeyFits(s) ==
  \/ s.xSignMechanism = "CKM_ECDSA" /\ s.xKeyType = "EC"
  \/ s.xSignMechanism = "CKM_RSA_PKCS" /\ s.xKeyType = "RSA"

C_Sign(c) ==
  /\ InUse(c) /\ "sign" \in Uses[c]
  /\ \/ /\ session[c].xSignKeyOid # "none"
        /\ KeyFits(session[c]) \/ session[c].xSignMechanism = "none"
        /\ Begin(c, "sign", "DevicePrivateKey", "lock")
        /\ UNCHANGED <<session, chip, accepted>>
     \/ /\ session[c].xSignKeyOid = "none" /\ KeyFits(session[c])   \* no key: the chip is left out
        /\ session' = [session EXCEPT ![c].xSignMechanism = "none"]
        /\ Begin(c, "sign", "InvalidHandle", "return")
        /\ accepted' = [accepted EXCEPT ![c] = TRUE]
        /\ UNCHANGED chip
  /\ UNCHANGED <<context_vars, running, orphans, handle, disturbed>>

\* Mutant: the mutex is not taken.
C_GenerateRandomUnlocked(c) ==
  /\ InUse(c) /\ "random" \in Uses[c]
  /\ SetBusy(c)
  /\ Begin(c, "random", "InvalidHandle", "call")
  /\ UNCHANGED <<xIsInitialized, xOptigaMutex, waitCounter, xObjects, instances,
                 running, orphans, session, handle, chip, accepted>>

C_GenerateRandom(c) ==
  /\ InUse(c) /\ "random" \in Uses[c]
  /\ Begin(c, "random", "InvalidHandle", "lock")
  /\ UNCHANGED <<context_vars, running, orphans, session, handle, chip, accepted, disturbed>>

-----------------------------------------------------------------------------
(* The common course of such an operation: take the mutex, set the status busy, *)
(* call the library, wait, look at the status.                                  *)

\* Mutant: the status of the operation before is left in place.
LockNotBusy(c) ==
  /\ pc[c] = "lock" /\ xOptigaMutex = "free"
  /\ xOptigaMutex' = c
  /\ Goto(c, "call")
  /\ UNCHANGED <<xIsInitialized, optigaLibStatus, waitCounter, xObjects, instances, running,
                 orphans, session, handle, op, object, chip, accepted, disturbed>>

Lock(c) ==
  /\ pc[c] = "lock" /\ xOptigaMutex = "free"
  /\ xOptigaMutex' = c
  /\ SetBusy(c)
  /\ Goto(c, "call")
  /\ UNCHANGED <<xIsInitialized, waitCounter, xObjects, instances, running, orphans,
                 session, handle, op, object, chip, accepted>>

\* optiga_util_...() or optiga_crypt_...() accepts the operation; waitCounter = 0 is
\* the beginning of P11CTX_WAIT_FOR_OPTIGA_STATUS.
Accept(c) ==
  /\ pc[c] = "call"
  /\ running[InstanceOf(c)] = "nobody"
  /\ ~(op[c] = "sign" /\ session[c].xSignMechanism = "none")
  /\ running' = [running EXCEPT ![InstanceOf(c)] = c]
  /\ chip' = [chip EXCEPT ![c] = "pending"]
  /\ waitCounter' = 0
  /\ Goto(c, "test")
  /\ UNCHANGED <<xIsInitialized, xOptigaMutex, optigaLibStatus, xObjects, instances,
                 orphans, session, handle, op, object, accepted, disturbed>>

\* Mutant: a return that forgets the mutex.
KeepMutex(c) == UNCHANGED xOptigaMutex
GiveMutexBack(c) == xOptigaMutex' = IF xOptigaMutex = c THEN "free" ELSE xOptigaMutex

\* It refuses the operation at once; C_Sign without a mechanism does not even call it.
\* prvGetObjectValue still returns CKR_OK.  The status stays busy.
Refuse(c) ==
  /\ pc[c] = "call"
  /\ chip' = [chip EXCEPT ![c] = "refused"]
  /\ accepted' = [accepted EXCEPT ![c] = op[c] \in {"find", "value"}]
  /\ IF op[c] = "open" THEN Finalize
     ELSE GiveMutexBack(c) /\ UNCHANGED <<xIsInitialized, instances>>
  /\ session' = [session EXCEPT ![c].xKeyType = IF op[c] = "keytype" THEN "unknown" ELSE @]
  /\ Goto(c, IF op[c] = "find" THEN "add" ELSE "return")
  /\ UNCHANGED <<optigaLibStatus, waitCounter, xObjects, running, orphans, handle, op,
                 object, disturbed>>

\* The loop condition.  C_Sign gives the mutex back as soon as the loop ends.
Test(c) ==
  /\ pc[c] = "test"
  /\ \/ optigaLibStatus = "busy" /\ Goto(c, "delay") /\ UNCHANGED xOptigaMutex
     \/ /\ optigaLibStatus # "busy" /\ Goto(c, "check")
        /\ IF op[c] = "sign" THEN GiveMutexBack(c) ELSE UNCHANGED xOptigaMutex
  /\ UNCHANGED <<xIsInitialized, optigaLibStatus, waitCounter, xObjects, instances, running,
                 orphans, session, handle, op, object, chip, accepted, disturbed>>

\* Mutant: no limit to the wait.
DelayForever(c) ==
  /\ pc[c] = "delay"
  /\ Goto(c, "test")
  /\ UNCHANGED <<context_vars, running, orphans, session, handle, op, object, chip, accepted,
                 disturbed>>

\* cy_rtos_delay_milliseconds() and the rest of the loop's body.  The counter is shared
\* like the status; it stops at its limit here, where only ">= limit" is asked of it.
Delay(c) ==
  /\ pc[c] = "delay"
  /\ IF waitCounter + 1 >= PKCS11_OPTIGA_WAIT_COUNTER_MAX
     THEN /\ waitCounter' = PKCS11_OPTIGA_WAIT_COUNTER_MAX
          /\ WriteStatus(c, "error")
     ELSE waitCounter' = waitCounter + 1 /\ UNCHANGED <<optigaLibStatus, disturbed>>
  /\ Goto(c, "test")
  /\ UNCHANGED <<xIsInitialized, xOptigaMutex, xObjects, instances, running, orphans,
                 session, handle, op, object, chip, accepted>>

\* The wait is over: c stops waiting, answered or not, and goes by the status.
Abandon(c) ==
  running' = [i \in Instances |-> IF running[i] = c THEN "abandoned" ELSE running[i]]

\* prvOptiga_Initialize after the wait; a failure ends in C_Finalize().
CheckOpen(c) ==
  /\ op[c] = "open"
  /\ \/ /\ optigaLibStatus = "success"
        /\ xIsInitialized' = TRUE /\ xOptigaMutex' = "free"
        /\ Abandon(c)
        /\ UNCHANGED <<instances, orphans>>
     \/ /\ optigaLibStatus # "success"
        /\ Finalize
        /\ orphans' = IF running["optigaUtilInst"] = c THEN orphans + 1 ELSE orphans
        /\ running' = [running EXCEPT !["optigaUtilInst"] = "nobody"]
  /\ Return(c)
  /\ UNCHANGED session

\* C_FindObjects after the wait: a certificate that was read is listed next, unless it is empty.
CheckFind(c) ==
  /\ op[c] = "find"
  /\ Abandon(c) /\ GiveMutexBack(c)
  /\ \/ optigaLibStatus = "success" /\ Goto(c, "add")
     \/ Return(c)
  /\ UNCHANGED <<xIsInitialized, instances, orphans, session>>

\* prvGetKeyAlgorithm after the wait: it parses its buffer, whatever is in it.
CheckKeyType(c) ==
  /\ op[c] = "keytype"
  /\ Abandon(c) /\ Return(c)
  /\ \E type \in IF optigaLibStatus # "success" THEN {"unknown"}
                 ELSE IF chip[c] = "success" THEN {KeyAlgorithm} ELSE KeyTypes :
       session' = [session EXCEPT ![c].xKeyType = type]
  /\ UNCHANGED <<xIsInitialized, xOptigaMutex, instances, orphans>>

\* C_Sign after the wait, without the mutex; the operation ends only with a signature.
CheckSign(c) ==
  /\ op[c] = "sign"
  /\ Abandon(c) /\ Return(c)
  /\ session' = [session EXCEPT
       ![c].xSignMechanism = IF optigaLibStatus = "success" THEN "none" ELSE @]
  /\ UNCHANGED <<xIsInitialized, xOptigaMutex, instances, orphans>>

\* prvGetObjectValue for C_GetAttributeValue, and C_GenerateRandom.
CheckData(c) ==
  /\ op[c] \in {"value", "random"}
  /\ Abandon(c) /\ GiveMutexBack(c) /\ Return(c)
  /\ UNCHANGED <<xIsInitialized, instances, orphans, session>>

Check(c) ==
  /\ pc[c] = "check"
  /\ accepted' = [accepted EXCEPT ![c] = optigaLibStatus = "success"]
  /\ CheckOpen(c) \/ CheckFind(c) \/ CheckKeyType(c) \/ CheckSign(c) \/ CheckData(c)
  /\ UNCHANGED <<optigaLibStatus, waitCounter, xObjects, handle, op, object, chip, disturbed>>

\* The function returns to its caller.
Finish(c) ==
  /\ pc[c] = "return"
  /\ Begin(c, "none", "InvalidHandle", "idle")
  /\ chip' = [chip EXCEPT ![c] = "none"]
  /\ accepted' = [accepted EXCEPT ![c] = FALSE]
  /\ disturbed' = disturbed \ {c}
  /\ UNCHANGED <<context_vars, running, orphans, session, handle>>

-----------------------------------------------------------------------------
(* optiga_callback(), called by the OPTIGA library with the chip's answer *)

optiga_callback(i) ==
  /\ running[i] # "nobody"
  /\ \E answer \in {"success", "error"} :
       /\ WriteStatus(running[i], answer)
       /\ chip' = [c \in Callers |-> IF c = running[i] THEN answer ELSE chip[c]]
  /\ running' = [running EXCEPT ![i] = "nobody"]
  /\ UNCHANGED <<xIsInitialized, xOptigaMutex, waitCounter, xObjects, instances, orphans,
                 session, handle, pc, op, object, accepted>>

OrphanCallback ==
  /\ orphans > 0
  /\ orphans' = orphans - 1
  /\ \E answer \in {"success", "error"} : WriteStatus("nobody", answer)
  /\ UNCHANGED <<xIsInitialized, xOptigaMutex, waitCounter, xObjects, instances, running, caller_vars>>

-----------------------------------------------------------------------------
Start(c) ==
  \/ C_Initialize(c) \/ C_OpenSession(c) \/ C_CloseSession(c)
  \/ \E l \in Labels : C_FindObjectsInit(c, l) \/ GetValue(c, l)
  \/ C_FindObjects(c) \/ C_FindObjectsFinal(c)
  \/ GetKeyType(c)
  \/ \E l \in Labels, m \in Mechanisms : C_SignInit(c, l, m)
  \/ C_Sign(c) \/ C_GenerateRandom(c)

TakesMutex(c) == Lock(c) \/ prvAddObjectToList(c)
Call(c)       == Accept(c) \/ Refuse(c)
Proceed(c)    == Call(c) \/ Test(c) \/ Delay(c) \/ Check(c) \/ Finish(c)

Next ==
  \/ \E c \in Callers : Start(c) \/ TakesMutex(c) \/ Proceed(c)
  \/ C_Finalize
  \/ \E i \in Instances : optiga_callback(i)
  \/ OrphanCallback

Spec == Init /\ [][Next]_vars

\* A caller runs on, and gets a mutex that is free again and again: FreeRTOS hands it
\* to the waiting task that has the highest priority and has waited longest.  Nothing
\* is assumed of the chip, which need not answer.
Fairness == \A c \in Callers : WF_vars(Proceed(c)) /\ SF_vars(TakesMutex(c))
FairSpec == Spec /\ Fairness

-----------------------------------------------------------------------------
(* Properties *)

\* The mutex is held by exactly the caller that is between taking it and giving it
\* back: nobody returns with it, and two callers that use it never wait for the chip at
\* the same time.
MayHold(c) == pc[c] \in {"call", "test", "delay"} \/ (pc[c] = "check" /\ op[c] # "sign")
MutexHeldExactly ==
  \A c \in Callers : xOptigaMutex = c <=> MayHold(c) /\ op[c] # "keytype"

\* No object is listed twice, although two callers may look for it, read it and list it
\* at the same time.
ListedOnce ==
  \A s, t \in Slots :
    xObjects[s].xHandle = xObjects[t].xHandle /\ s # t => xObjects[s].xHandle = "InvalidHandle"

\* A handle given to a caller names the object it asked for, for as long as the module
\* stays initialised.
HandleNamesObject ==
  \A c \in Callers, l \in Labels :
    handle[c][l] # 0 => /\ xObjects[handle[c][l]].xLabel = l
                        /\ xObjects[handle[c][l]].xHandle = prvFindObject(l)

\* What the layer takes for a success of the chip is one: an operation that the chip
\* has failed, or not finished, is accepted only if another operation has written the
\* status meanwhile.
SuccessIsGenuine ==
  \A c \in Callers :
    pc[c] \in {"return", "add"} /\ accepted[c] /\ c \notin disturbed =>
      chip[c] \in {"success", "refused", "none"}

\* Another operation writes the status that a caller waits for only in three cases: it is
\* the late answer to an operation given up; one of the two is a key query, which does
\* without the mutex; or the caller is C_Sign, which has given the mutex back already.
KeyQuery(c) == op[c] = "keytype" /\ pc[c] # "idle"
GivenUp    == {"abandoned"} \cup {c \in Callers : pc[c] = "check"}
LateAnswer == \/ orphans' < orphans
              \/ \E i \in Instances : running[i] \in GivenUp /\ running'[i] = "nobody"
Explained(c) ==
  \/ LateAnswer
  \/ \E d \in Callers : KeyQuery(d) \/ KeyQuery(d)'
  \/ op[c] = "sign" /\ pc[c] = "check"
DisturbedOnlyBy == [][\A c \in disturbed' \ disturbed : Explained(c)]_vars

\* Every call returns though the chip may stay silent, unless other callers' operations
\* restart the wait again and again: the counter that ends it is shared.
Interfered(c) ==
  \E d \in Callers \ {c} : pc[d] = "call" /\ (op[d] = "keytype" \/ op[c] = "keytype")
EveryCallReturns == \A c \in Callers : []<>(pc[c] = "idle" \/ Interfered(c))

\* The layer is a token that its clients use one at a time and whose directory only grows
\* while it is open (TokenService): C_Initialize starts with an empty list, an object found
\* is told to every caller under one handle, listing one moves no other, and C_Initialize,
\* the operations and C_Finalize never overlap.  Key queries, which go without the mutex,
\* neither take the token nor change its directory.
Holder    == IF xOptigaMutex \in Callers THEN xOptigaMutex ELSE "nobody"
Directory == {<<xObjects[s].xLabel, s>> : s \in Slots \ Holding("InvalidHandle")}
Token == INSTANCE TokenService WITH
  Clients <- Callers, Places <- Slots, Nobody <- "nobody",
  open <- xIsInitialized, holder <- Holder, directory <- Directory
ImplementsTokenService == Token!Spec

\* C_SignInit's comment (line 1800): "Only the device private key and code sign key can
\* be used to make a signature."
OnlyPrivateKeySigns ==
  \A c \in Callers : op[c] = "sign" /\ pc[c] = "return" /\ accepted[c] => chip[c] # "none"
=============================================================================
