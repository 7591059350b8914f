# TLA+ verification of the OPTIGA MQTT client

This directory holds TLA+ specifications of the MQTT client example for a PSoC 6
board with an OPTIGA Trust M secure element, the TLC runs that check them, and
TLAPS proofs of the main results: of the MQTT application, of the whole way from its
TLS connection down to the I2C bus of the secure element, and of the RSA arithmetic
that stays in software. The program is in `src/`; paths below are relative to it.

## The system

A FreeRTOS application. `main.c` sets up the board, a task of
`optiga_trust_helpers.c` opens the secure element, and the MQTT client task of
`mqtt_task.c` then connects to Wi-Fi and to a broker over TLS, whose private key
and certificate live in the secure element. A button press publishes a message,
and a received message switches the LED.

| Component | State | Operations | Talks to |
|---|---|---|---|
| MQTT client task, `source/mqtt_task.c` | `status_flag`, `mqtt_task_q`, task handles, `mqtt_connection`, network buffer | start-up, `wifi_connect`, `mqtt_init`, `mqtt_connect`, command loop, `HANDLE_DISCONNECTION`, `cleanup` | both workers through their queues; connection manager; MQTT library |
| Event callback, same file | `status_flag` (shared) | DISCONNECT event, message event | called on the MQTT library's thread; posts to `mqtt_task_q` and `subscriber_task_q` |
| Publisher task, `source/publisher_task.c` | `publisher_task_q`, the button's GPIO set-up | init, deinit, publish | MQTT library; reports failures to `mqtt_task_q` |
| Button interrupt, same file | - | `isr_button_press` | reads `current_device_state`; posts to `publisher_task_q` without waiting |
| Subscriber task, `source/subscriber_task.c` | `subscriber_task_q`, LED, `current_device_state` | subscribe with retries, update the LED, (unsubscribe) | MQTT library; reports failures to `mqtt_task_q` |
| TLS layer, `source/SECURE_SOCKET_MBEDTLS_ALT` | TLS contexts, identities, a count of initialisations | init, identity, connect, send, receive, deinit | mbedTLS, PKCS#11 layer |
| PKCS#11 layer, `source/SECURE_SOCKET_OPTIGA_ALT` | object list, sessions with a search, a key and a mechanism each, two instances of the OPTIGA library, one mutex, one completion status with one wait counter | initialise and finalise, sessions, find an object, read its attributes, sign, draw random numbers | OPTIGA library, whose callback sets the completion status |
| Crypto back ends, `source/OPTIGA_MBEDTLS_ALT` | one completion status per file | ECDSA, ECDH, RSA | OPTIGA library |
| Helpers and boot, `source/optiga_trust_helpers.c`, `source/main.c` | one completion status | open the application on the chip, read certificates as PEM, write objects, start the MQTT task | OPTIGA library, FreeRTOS |
| PAL, `source/COMPONENT_OPTIGA_PAL_FREERTOS` | I2C bus semaphore and current context, event object and one-shot timer, lock, data store | I2C read and write with interrupt and event task, event start and stop, lock, data store read and write | FreeRTOS, board drivers; called by the OPTIGA library |

### What is hard in it

* Five contexts meet on three bounded queues: three tasks of equal priority with
  time slicing, the library's callback thread, and an interrupt. All sends of
  tasks and of the callback wait for ever (`portMAX_DELAY`); the interrupt's never
  waits.
* A session can be lost at any moment, during start-up and during a recovery too.
  Its report is a DISCONNECT event, a callback, a queue entry and a command, one
  after the other, and must be neither lost nor handled twice.
* Each queue is created by the task that receives from it, after things that can
  already make others send to it.
* `status_flag` is updated by two threads without a lock and decides what
  `cleanup()` gives back.
* Start-up can fail after each acquisition; the workers are deleted wherever they
  happen to be.
* Each OPTIGA user waits for its result on a status variable that every operation
  of that file shares, and that a late callback can still write.
* Functions of the crypto back ends and of the TLS layer have up to ten ways out, and
  each must leave the heap, the instances of the library and the context in order.
* The RSA code keeps values from one call to the next (blinding, CRT) that must fit
  each other after any failure, and its paddings have boundary cases by the modulus's
  length in bits.
* In the PAL a one-shot timer, an interrupt and a task of the highest priority use
  global variables that callers set in several steps.

### What makes each component correct

* Client task: every lost session is replaced or the application ends; one
  recovery per loss; what was acquired is released, in an order the libraries
  accept; the workers get their commands.
* Publisher: the button is configured and freed in turn.
* Subscriber: each new session is subscribed; a received state reaches the LED.
* PKCS#11 and chip commands: an operation sees its own result; a session's active
  operation and the object list are consistent; every mutex and instance taken is given
  back; what goes to the chip is well formed.
* RSA: a key that is accepted works; a wrong result is never given out; what one
  padding function makes the other takes, and nothing else.
* TLS: a handshake uses the certificates that were asked for; nothing is freed twice;
  no byte of the stream is lost or repeated.
* PAL: one transfer at a time, each completed exactly once to the one who asked; an
  event calls what was registered; one task holds the lock; data is read as written while it
  fits its buffer.

## Modules

| Module | Models |
|---|---|
| `Platform` | queues, and the external services as the application uses them: connection manager, MQTT library with its callback thread, broker |
| `SubscriberTask` | `subscriber_task.c`: the task and `mqtt_subscription_callback()` |
| `PublisherTask` | `publisher_task.c`: the task and `isr_button_press()` |
| `MqttClientTask` | `mqtt_task.c`: the task with everything it calls, and `mqtt_event_callback()` |
| `MqttApp` | their composition, the specification, fairness, and all properties |
| `Supervision` | abstract specification of the connection's life cycle |
| `MCMqttApp` | budgets of environment events for TLC |
| `MqttAppProofs` | type correctness; no disconnection is lost; clean-up is complete; the unlocked updates of `status_flag` do not collide |
| `SupervisionProofs` | `MqttApp` implements `Supervision`; the button is configured and freed in turn |
| `Pkcs11` | `pkcs11_optiga_trustm.c`: context, sessions, object list, and the operations of the chip, for any number of calling threads |
| `MCPkcs11` | who asks what of the layer, for TLC |
| `TokenService` | abstract specification of the layer: a token, who has it, and its directory |
| `Pkcs11Proofs` | type correctness and every safety property of `Pkcs11` and `Pkcs11Encoding`; `Pkcs11` implements `TokenService` |
| `Pkcs11Encoding` | what the layer reads out of the chip's answers: ECDSA signatures, metadata of a key |
| `MCPkcs11Encoding` | answers of the chip and other strings of bytes, for the run of `Pkcs11` that signs |
| `Tls` | `cy_tls.c`: contexts, identity, global root certificate, connect, send and receive |
| `MCTls` | sources of the certificates, for TLC |
| `ChipCalls` | commands to the chip outside PKCS#11: `trustm_ecdsa.c`, `trustm_ecdh.c`, the PKCS#1 v1.5 part of `trustm_rsa.c`, `optiga_trust_helpers.c`, and the boot task of `main.c` |
| `MCChipCalls` | who calls what, curves, moduli and certificates, for TLC |
| `RsaContext` | the software part of `trustm_rsa.c` |
| `MCRsa` | small keys, hash and random numbers, for TLC |
| `PalI2c` | `pal_i2c.c`, `pal.c` |
| `BusService` | abstract specification of the I2C bus |
| `PalEvent` | `pal_os_event.c` with the timer daemon of FreeRTOS |
| `Pal` | `pal_os_lock.c`, `pal_os_datastore.c`, and the four parts of the PAL in one specification |
| `MCPal` | data and places of the data store's buffers, for TLC |
| `DataFacts` | induction over numbers and finite sets, recursion, sums over a set, sequences put together, division, congruences and primes: lemmas that any module may use |
| `ChipCallsProofs` | a reported success is the chip's; a generated key is the one that is read; instances are given back; keys go to the chip as DER; PEM texts are complete |
| `PalProofs` | every safety property of `Pal`; `PalI2c` implements `BusService` |
| `TlsProofs` | every safety property of `Tls` |
| `RsaProofs` | contexts stay usable; accepted keys work; generation, completion, blinding, the private operation and both paddings are right |

### The MQTT application

Each module extends the one before it, as the C files include each other's
headers. An action is the code between two points where another context can
observe or disturb the task: a library call, a queue operation, an update of
shared state. `mqtt_pc`, `sub_pc`, `pub_pc` and `cb_pc` name those points; values
such as `"send_deinit"` stand for the call about to be made. A task blocked in
`xQueueSend` is at a point whose action is disabled until the queue has room
(`RoomIn`). A send to a queue that does not exist yet runs into the kernel's
`configASSERT`, which halts the CPU: variable `halted`.

`wifi_connect()` and `mqtt_connect()` have several callers; `wifi_caller` and
`mqtt_caller` remember which one to return to. `status_flag` is the set of its
bits. An update of it by the callback is a load and a store with other contexts
in between, and so is the task's update of `MQTT_CONNECTION_SUCCESS`; its other
updates are one step, which is sound because `FlagUpdatesExclusive` shows that
none of them can fall between a load and a store of the callback. `resources` is not a
variable of the program: it records what the libraries have handed out, so that
`cleanup()`, which looks only at `status_flag`, can be compared with it.

`Supervision` knows only where the connection is (`starting`, `online`, `lost`,
`recovering`, `terminated`) and whether both workers exist. The mapping is
`Conn` and `Tasks` in `MqttApp`.

### The PKCS#11 layer

`Pkcs11` stands alone: its callers are constants, and each is a thread with a
session. The variables `xIsInitialized`, `xOptigaMutex`, `optigaLibStatus`,
`waitCounter` and `xObjects` are the fields of `xP11Context`; `session[c]` is the
caller's `P11Session_t`, reduced to what decides the control flow, and `handle[c]`
the object handles it was given. `running[i]` is the caller that an instance of the
OPTIGA library works for. A call that only touches the session is one action. An
operation that needs the chip goes through the points of `pc[c]`:

| Point | Code | Actions |
|---|---|---|
| `lock` | `cy_rtos_get_mutex()`, status set busy | `Lock` |
| `call` | `optiga_util_...()` or `optiga_crypt_...()` | `Accept`, `Refuse` |
| `test`, `delay` | loop of `P11CTX_WAIT_FOR_OPTIGA_STATUS` | `Test`, `Delay` |
| `check` | what the function does with the status | `Check` |
| `add` | `prvAddObjectToList()` | `prvAddObjectToList` |
| `return` | back to the caller | `Finish` |

The operations differ, as in the code, in three things: `C_Sign` gives the mutex
back before it looks at the status, the key query (`prvGetKeyAlgorithm`) never takes
it, and a read that is refused still counts as a success (`Refuse`). `optiga_callback`
may come at any later time, or never; when the caller has given up, `running[i]` is
`"abandoned"`, and `orphans` counts the answers owed by instances that have been
destroyed since. Three variables are not in the program: `chip[c]` is what became of
the operation according to the chip, `accepted[c]` what the layer took it for, and
`disturbed` the callers whose status something else has written since they set it
busy.

`TokenService` knows the layer only as a token that is open or closed, the client that
has it to itself (`holder`), the places of the objects found so far (`directory`) and the
places each client was told of (`handle`). It has no sessions, points, status or chip. The
mapping, in `Pkcs11`, is `xIsInitialized`, the owner of the mutex (`Holder`) and the slots in
use with their labels (`Directory`). Of the abstract actions, `Begin` is `C_Initialize`, `Close` is
`C_Finalize`, `Take` is `Lock`; `Opened`
is `CheckOpen` when the application was opened; `GiveBack` is whatever gives the mutex back,
or destroys it when opening failed; `LookUp` is `prvAddObjectToList`; all else, key queries
included, is unseen.

`Pkcs11Encoding` adds no variables: `prvAsn1ToEcdsaRS()` and the loop of
`prvGetKeyAlgorithm()` (`Walk`, a recursive function of the number of iterations, each of
which is `Iteration`) are operators, which are compared with what the chip has
encoded (`DerInteger`, `Metadata`) and, for other strings, with the definition of a DER
integer. A buffer goes on behind the bytes the chip has written, so that reading too far is
seen in the result. What is assumed of a metadata is named (`MetadataAssumption`): the tags of
the object and of the algorithm are no tags of other entries, though their bytes may well be
among the values; and none of them lies behind the place, `a[1] + 2` bytes after the length
of the algorithm `a`, at which the loop goes on when it has found it, because it takes that
length for a tag and the algorithm for a length. An object has at least one entry: the
loop would read behind the end of an empty metadata.

### The TLS layer

`ctx[c].pc` says what comes next for context c: `cy_tls_create_context()`, the stages of
`cy_tls_connect()` (`begin`, `ca`, `client`, `setup`, `handshake`), then `connected` or
`failed` until `cy_tls_delete_context()`. `held[c]` is what the context holds on the heap,
in mbedTLS's structures and in PKCS#11; it is not a variable of the program, whose
pointers (`mbedtls_ca_cert`, `cert_x509ca`, `cert_client`, `session`) decide what is
freed: `freed_twice` and `leaked` compare the two. Loading or releasing the global root
certificate is two actions, because it is freed before the pointer is stored
(`ReleaseRootCa`, `StoreRootCa`), and `crossed` marks a context that was connecting
meanwhile. `io[c]` follows the bytes of one message through the loop of `cy_tls_send()`:
`told` what the caller knows to be sent, `wire` what mbedTLS has put into records,
`pending` the record it could not write; and of `cy_tls_recv()`.

### The commands to the chip

`Table` gives for each operation its file, its checks before and after the command, and
what it returns when the command is refused or fails. The actions are the same for all:
`Enter` (checks, instance, status set busy), `Issue`, the loop that waits (`Awake`),
`Fail` or `Conclude`, and `Return` with the clean-up; an action is the code between two
points at which another task could tell the difference. `optiga_crypt_event_completed` is
the callback, `StrayCompleted` the answer to an instance that has been destroyed since.
What the operations hand over is computed: the DER headers of public keys (`VerifyHeader`,
`SharedHeader`, `BitString`), whether a generated key is read at the place of its point
(`PointReads`, from the length that the library has left or not left in the caller's
variable), and the PEM text (`PemText`): its length, and whether it is the certificate at all,
since the readers ignore that the conversion to base64 ran out of room and copy what lies in
and behind their array. `overlapped` is not in the program: the tasks whose status was
written for another call during their own.

### RSA in software

The shipped configuration does not compile `trustm_rsa.c`: `MBEDTLS_RSA_ALT` is commented out
in `configs/mbedtls_config.h:455` and not defined in `configs/mbedtls_user_config.h`. The file
is part of the repository, written for a build that defines it, and is modelled as such, the
RSA commands of `ChipCalls` included.

One context, `ctx`, with the fields of `mbedtls_rsa_context` as numbers. The operations
of `trustm_rsa.c` are computed on small numbers: bytes have 2 bits, hash values 2 bytes.
`last` is the result of the last operation and what went in and came out. Failures of
allocations and of the random generator are alternatives at the points where they leave a
different context behind; `spoiled` says that one of them interrupted the making of the
blinding values. A `glitch` is a computation that goes wrong in the CRT, which the check
at the end (`Verified`) is there for.

### The PAL

`Pal` is four machines side by side; a behaviour runs one of them (`part`), since they
share no variable. The bus: `caller[c]` is where the caller of context c is between
`pal_i2c_acquire()` and the end of its call, `transfer` what the HAL is doing, `notified`
the event bits of the task. The event: creation and registration write the callback, its
context and the timer one after the other, and the timer daemon may run between two of
these writes; `crossed` says that an event was registered or destroyed while an earlier
one-shot was under way. `BusService` knows the bus only as its callers do: free, held by
one of them, carrying out its transfer, answered. The mapping is `Holder` and `Stage` in
`PalI2c`. The lock: one semaphore for all locks, made by the first caller.
The data store: the bytes of three fixed buffers, each with room for two bytes of length and
its data (`RoomOf`), at whatever places the linker gives them (`base`, from `Layouts`). A write
is a `memcpy()` at the place of its buffer, over whatever lies there; only the length of the
shared secret is checked (`Accepts`). A read takes the length it finds and copies as much, and
what lies outside the three buffers is `Unknown`. Two histories serve the property: `written`
has the last data of each store, `reached` the stores that a longer write has run into.

### Assumptions about external code

* The OPTIGA library answers an operation at most once, and refuses one on an
  instance that has not answered yet.
* Callers keep to the PKCS#11 rules: one thread to a session, C_Initialize and
  C_Finalize while nothing else runs, nothing before C_Initialize has succeeded. (In
  this application only the TLS layer uses it.)
* `cy_rtos_get_mutex()` with `CY_RTOS_NEVER_TIMEOUT` does not fail.
* The MQTT library calls `mqtt_event_callback()` on one thread, one event at a
  time, in order of occurrence.
* It raises one DISCONNECT event per lost session, none for a session the
  application closes with `cy_mqtt_disconnect()`.
* A session starts without the subscription of the one before
  (`clean_session` in `mqtt_client_config.c`).
* `cy_mqtt_connect`, publish and subscribe succeed only with a link (and a
  session), and may fail at any time. A publish that failed may have reached the
  broker (QoS 1).
* The connection manager may restore a link it once had by itself.
* A call to a library returns. What happens to a lock of the library when its
  holder is deleted by `vTaskDelete()` is not modelled.
* Secure sockets connect a TLS context once and delete it after a failure or when done;
  they keep an identity while a context uses it; one thread at a time loads or releases
  the global root certificate. After a send that was reported in part the caller goes on
  with the rest. (The application has one connection.)
* mbedTLS keeps a record that could not be written and writes it at the next call.
* RSA contexts are used by one task at a time (`MBEDTLS_THREADING_C` is not defined), with
  the modes that the pk layer of mbedTLS passes, and get a new key only after
  `mbedtls_rsa_free()`.
* The OPTIGA library opens and closes the PAL while no transfer is under way, starts a
  transfer of a context only when the last one of it was answered, and does not nest locks.
  It may write any length to the data store.
* It answers every command it has accepted; only for PKCS#11, which gives up waiting, may it
  stay silent. The length of a generated key is set when it reports success, and only then.
* `mbedtls_ecp_point_read_binary()` takes exactly the bytes that a point of the curve has;
  `mbedtls_base64_encode()` fails when its result and a final zero have no room, and then
  sets the length to what it lacks.
* The I2C master of the HAL ends each transfer with one interrupt.

## Runs

| Run | Checks | Expected |
|---|---|---|
| `app_safety` | `TypeOK`, `DisconnectionAccountedFor`, `ButtonConfiguredInTurn`, `FlagUpdatesExclusive`, `CleanupComplete`, `ImplementsSupervision` | pass |
| `app_progress` | `Recovers`, `Resubscribes`, `MessageReachesLed` | pass |
| `null_queue` | `NoSendBeforeCreate` | violated |
| `circular_wait` | `NoCircularWait` | violated |
| `pkcs11_status` | `AnswersRead`, `MutexHeldExactly`, `SuccessIsGenuine`, `DisturbedOnlyBy` | pass |
| `pkcs11_objects` | `ListedOnce`, `HandleNamesObject`, `EveryCallReturns`, `ImplementsTokenService` | pass |
| `sign_any_object` | `OnlyPrivateKeySigns` | violated |
| `chip_calls` | `InstancesReturned`, `SuccessMeansExecuted`, `KeyHeadersAreDer`, `PemComplete`, `GeneratedKeyRead`, `ChipProgress` | pass |
| `rsa` | `GenKeyRight`, `AcceptedKeyWorks`, `BlindingConsistent`, `PrivateSound`, `PaddingRoundTrip`, `PaddingExact`, `CompleteRight` | pass |
| `pss_boundary` | `PssComplies` | violated |
| `pal` | `BusHeldByOne`, `CalledAsRegistered`, `LockExclusive`, `DatastoreRoundTrip`, `ImplementsBusService`, `PalProgress` | pass |
| `tls` | `ReleasedOnce`, `LeaksKnown`, `HandshakeOnRightCertificates`, `StreamIntact` | pass |

`CleanupComplete` has three parts: no MQTT instance is deleted under a live session, what
was acquired is released, and the access point is left if it was joined, unless the link came
back by itself. `PalProgress` is
the progress of all four parts of the PAL, `ChipProgress` that of every command and of the
boot task. `AnswersRead` has three parts, about signatures of the chip, about other strings,
and about metadata; it depends on no variable and is evaluated in the initial state.

**Bounds, MQTT application.** `EnvBudget` limits how often the environment acts: button presses,
lost sessions, lost links, links that return by themselves, and messages of other
clients. `app_safety` has the source's queue lengths (3, 3 and 1) and one event of
each kind. A session is lost twice, once directly and once by keep-alive after the
link is lost, so that the second loss falls into every point of the recovery of the
first, and the link may return at any point of the Wi-Fi paths. Retry limits are 2
instead of 120, 150 and 3: an attempt that is retried and one that is given up
both occur, and nothing but the counter tells the attempts in between apart.
`app_progress` has queues of one slot, so that every blocking send does block and the
circular wait below occurs, one press, and two lost sessions in the same way;
liveness needs the smaller instance, and the safety run and the proofs cover the
larger ones. The violation runs use the source's queue lengths. The application may
stop (exit, a halted CPU, or a circular wait), so deadlock is not an error; that
nothing else keeps it from recovering is what `Recovers` says.

**Bounds, PKCS#11 layer.** Two callers, which is what it takes to disturb each other;
the proofs cover any number. In `pkcs11_status` one finds its key, asks for its type
and signs while the other draws random numbers, so that each kind of operation meets
one that holds the mutex; in `pkcs11_objects` both look objects up, and want the same
certificate. The list has 3 slots, the number of objects that exist, so that it fills
up. The wait gives up after 1 or 2 polls instead of 12000: the loop looks only at
whether the limit is reached, and the counter stops there (its 16 bits could wrap only
if a wait went on 65536 polls). At most 2 answers (1 in `pkcs11_objects`) are owed by
destroyed instances at a time (`MAX_ORPHANS`): initialisation or finalisation that
would exceed it is left out.

**Bounds, encodings.** Bytes of three bits for signatures, with components of 2 and 3 bytes,
so that every pair of numbers is tried: with and without a stuffing zero, and shorter than
the component by up to two bytes. (Components of one byte would differ, as the code keeps
the zero of an integer of two bytes; the curves have at least 32.) Other strings are all
those of 7 bytes over 0 to 2 and of 6 over 1, 2, 4 and 7, of which the chip may have written
any part. Metadata have real tags, up to 8 entries, and values that look like tags.

**Bounds, TLS.** One context: two would share only the counter of initialisations and the
global root certificate, which is also loaded (twice at most) and released by another
thread at every point of the connect. A message of 3 bytes with at most 2 to a record gives
sends of one and of two records, a partial one, and a waiting record of either size.

**Bounds, commands to the chip.** Two uses: one task that calls every operation after the
boot task, where everything depends on the checks and on the chip; and two tasks in the
file of ECDSA, where one has the other's status. The library has 2 instances, so that
`optiga_trust_init()`, which needs two, meets one that is gone. One answer at a time may be
owed to a destroyed instance. Curves and moduli are those on either side of each condition
in the code; certificates of 48 and 49 bytes give exactly one line of base64 and one byte
more. With 843 bytes the text still fits the boot task's buffer and with 844 not, with 897 the
base64 form still fits the reader's array and with 898 not; the longest objects that can be
read are 1024 bytes, here with a tag, and 1300 for a trust anchor.

**Bounds, RSA.** Three keys, of 6, 12 and 13 bits (3, 6 and 7 bytes): the first for the plain
operations, with an input in the middle of its range, the largest one and the first that is
too large; the others for the paddings, on both sides of the case that the number of bits
less one fills its bytes. (That the plain operations are right on every input of every key is
proved.) `AcceptedKeyWorks` looks at every number below the modulus. Two private operations with
blinding on a context, as the second one squares what the first one made; two imports.
`PaddingExact` compares with the definition over every string of a key's length. The
limits of the code (128 bits, 16 bytes, 1024 bytes) are scaled with the bytes.

**Bounds, PAL.** Two contexts on the bus and two users of the event: one has it and the
other wants it. A timer queue of one command, so that it is full at times; two timer
handles, as a second creation loses the first. Three tasks at the lock, so that two wait.
Data of 64, 65 and 258 bytes: the largest shared secret; one byte too many for it, which
still fits the buffer of the manage context; and data that run over every buffer into the
next and need both bytes of the length. The three buffers lie next to each other, in each of
the six orders; 16 bytes stand for `APP_CONTEXT_SIZE`, which a header outside the repository
defines.

**Fairness, MQTT application.** `FairSpec` gives weak fairness to each task, to the callback thread
and to keep-alive. FreeRTOS preempts and time-slices among ready tasks of equal
priority (`configs/FreeRTOSConfig.h`, `configUSE_PREEMPTION`,
`configUSE_TIME_SLICING`; all three tasks have priority 2), so a ready task runs;
the kernel wakes a task blocked on a queue when there is room, and the library's
thread and its keep-alive timer do not depend on the tasks. No fairness is assumed
of the network, the broker or the user: connection attempts may fail every time.

**Fairness, PKCS#11 layer.** Each caller's steps are weakly fair, and taking the mutex
strongly: FreeRTOS hands a mutex to the waiting task of the highest priority that has
waited longest, and a caller does not hold it for ever. Nothing is assumed of the chip,
which need not answer, nor of the application, which need not call.

**Fairness, commands to the chip, PAL.** Each task's steps are weakly fair (time slicing
among equal priorities), and the OPTIGA library answers what it accepted: without a limit
to the wait nothing else can end it. On the bus, the HAL ends each transfer, the event task
runs first, and a caller that has the bus goes on. The timer daemon takes its commands. A
task that holds the lock gives it back, and taking it is strongly fair, since FreeRTOS gives
a semaphore to the task of the highest priority that has waited longest. `Tls` and
`RsaContext` have safety properties only: the handshake loop ends when the socket below
returns an error, which is not in this code.

### Results

* A lost session is accounted for at every moment by exactly one of: the session
  itself, the library's event, the running callback, the entry in `mqtt_task_q`,
  the reconnecting task - until the task exits.
* Although PUBLISHER_INIT and PUBLISHER_DEINIT only wait in a queue, the button is
  never configured twice or freed twice.
* The unlocked updates of `status_flag` can lose `MQTT_CONNECTION_SUCCESS` being
  cleared (a session that dies before the task's store leaves the bit set), but
  never lose a bit that stands for a resource, and clean-up never deletes the MQTT
  instance under a live session.
* Every lost session is replaced or the application ends, every new session is
  subscribed or its failure reported, and a received state reaches the LED - unless
  two tasks wait for each other (`CircularWait`), which is the only obstacle.

* The mutex of the PKCS#11 layer is given back on every path, and two operations that
  take it never wait for the chip at the same time. The completion status is
  nevertheless shared with others: with the late answer to an operation given up, with
  the key query, and with whatever follows while `C_Sign` has not looked at it yet.
  `DisturbedOnlyBy` shows that there are no other ways, `SuccessIsGenuine` that
  outside these a success is the chip's own answer.
* Objects are listed once and handles stay valid, although the list is searched
  without the mutex. `ImplementsTokenService` adds what no state shows: a search moves no
  object that was found before, all callers are told the same place of it, the list is
  empty whenever the layer has been opened again, and opening, the operations that take the
  mutex, listing and closing never overlap.
* Every call returns though the chip may stay silent, unless others restart the shared
  wait counter again and again, which takes a key query.

* The components of a signature come out right for all numbers, which matters as `C_Sign`
  does not look at the result of the conversion; and the loop that looks for a key's
  algorithm finds it although it takes the length byte of that entry for a tag afterwards.

* TLS: contexts are released once on every path, and what is left behind after a failure
  is known: `key_cert` when `mbedtls_ssl_setup()` or `mbedtls_ssl_set_hostname()` fails, the
  record buffers in the second case, and an identity's certificate when its key, or part of
  the chain, does not parse. A certificate that cannot be had is left out, never replaced
  by one of another source. Only the global root certificate can be gone during a
  handshake, if another thread loads or releases it meanwhile.
* The stream stays intact although `cy_tls_send()` reports a partial success and mbedTLS
  keeps a record whose bytes the caller was not told of.
* Commands to the chip return what they took from the library, on all paths. Their success
  is genuine unless another call of the same file wrote the status; then a wait can also
  last for ever. One operation is exempt because the code is: RSA encryption returns 0 for a
  command that was refused or failed.
* `mbedtls_ecdsa_genkey()` does not look at the status, and yet never reports a success for a
  key that was not generated: it then finds the size of its buffer where the length of the key
  should be, and no point has that many bytes. It is the size of 150 bytes that saves it: with
  136, room for 3 bytes and the longest point, leftovers would be taken for a key (the mutant
  of `GeneratedKeyRead`). For the curves of 512 bits and more, whose points do not
  start at offset 3, it always fails, after the chip has replaced the device's key.
* A certificate comes out whole, with or without its tag, exactly when its base64 form fits
  the reader's array, up to 897 bytes; the readers take objects of 1024 bytes and more. They do
  not look at the room of their caller either: from 844 bytes on, the text runs over the 1200
  bytes of `main.c:84`.
* The MQTT task is created whatever the chip says; the boot task prints a certificate it
  may not have read.
* RSA: blinding values undo each other after any number of squarings and copies; if their
  making was interrupted, results that are wrong are caught, and no other; an accepted key
  works whatever parts it was made of; and the parts that suffice make the key they came
  from. For that `CompleteRight` takes the keys whose public exponent is smaller than
  lcm(P - 1, Q - 1), as all in use are: for E = 1 modulo it, completion from P, Q and E comes
  to D = 1, which the checks refuse.
* PAL: despite the global context, each result of the bus goes to the one who asked, once,
  before another context has the bus (`ImplementsBusService`).
  An event calls what was registered with its own context, except when it is registered or
  destroyed while a one-shot is under way, which `pal_os_event_stop()` does not prevent. The
  HAL is initialised up to the first `pal_i2c_deinit()` with a context and never again, since
  the flag stays set. What is in the data store can be spoiled only by a write that is too long
  for its buffer, and never by one of the shared secret.

Four statements of the source are not kept; each has a run that shows it:

* `null_queue`. A press between `publisher_init()` and `xQueueCreate()`
  (`publisher_task.c:146`, `:149`) posts to a NULL queue. A message
  received before the subscriber's queue exists (`subscriber_task.c:136`, `:139`)
  and a disconnection handled before the workers have started do the same.
* `circular_wait`. The client task waits for room in `publisher_task_q`, the
  publisher for room in `mqtt_task_q`; with both full the application stays offline.
  It takes several presses while publishing fails during a disconnection.
* `sign_any_object`. `pkcs11_optiga_trustm.c:1800` says only the private key can be
  used to sign; `C_SignInit` accepts any object, and `C_Sign` then returns a
  signature that the chip was never asked for.
* `pss_boundary`. `trustm_rsa.c:1860` says the salt length complies with RFC 8017; for a
  modulus of a whole number of bytes and one bit the code counts one byte too many, and
  with no byte to spare the marker before the salt is masked away: the function reports
  success, and the signature does not verify.

Five more things the code does are noted here without a run, as no statement of the source
says otherwise: PUBLISHER_DEINIT is queued but not awaited before reconnecting
(`mqtt_task.c:266`); two presses before the first message comes back publish the same state
(`publisher_task.c:282`); a read that the OPTIGA library refuses counts as one that
succeeded (`pkcs11_optiga_trustm.c:760`); a link that comes back by itself between the checks
of `mqtt_task.c:277` and `:351` carries the next session without `WIFI_CONNECTED` in
`status_flag`, so that `cleanup()` would not disconnect from the access point (the case that
`CleanupComplete` leaves out); and a certificate that is too long for the boot task's buffer
is written beyond it (`optiga_trust_helpers.c:112`, stated exactly by `PemComplete`).

## Proofs

For every value of the constants, that is for any queue lengths, retry limits and
numbers of environment events, from the named assumptions that lengths and limits
are positive and budgets are natural numbers:

* `TypeCorrect`: `Spec => []TypeOK`. `TypeOK` is inductive; there is one lemma for
  each pair of an actor and a part of the state that the actor can disturb.
* `DisconnectionNeverLost`: `Spec => []DisconnectionAccountedFor`. The set of
  holders is first spelled out as five predicates (`Accounted`,
  `HoldersSpelledOut`). That formula is inductive together with `TypeOK`, and each
  hand-over is one step: session to library (`NetworkAccounted`), library to
  callback and callback to queue (`CallbackAccounted`), queue to task and task to
  session (`MqttTaskAccounted`). Lemmas about `Append` and `Tail` tell how the
  queues' contents change.
* `SupervisionRefined`: `Spec => ImplementsSupervision`. The inductive invariant is
  `TypeOK /\ Accounted /\ Phases`. `Accounted` is needed because a recovery
  begins from `"lost"` only if no session is alive when the command is taken, and
  because losing a session is an abstract step only if the task is not connecting;
  `Phases` says which points of the task come before, and which after, the workers
  exist, which depends on the callers of `wifi_connect()` and `mqtt_connect()`.

About the PKCS#11 layer, for any callers and any use they make of it, any list of at
least 3 slots and any limit of the wait (`Pkcs11Proofs`):

* `TypeCorrect` (`Spec => []TypeOK`, which no run repeats), `MutexCorrect`
  (`Spec => []MutexHeldExactly`) and
  `DisturbanceExplained` (`Spec => DisturbedOnlyBy`), by the invariant `Control`:
  types, which operation can be at which point (`OpAtPoint`), an instance works only
  for a caller that waits on it (`WorksForWaiting`), initialisation runs alone
  (`InitialisationAlone`), and the mutex. They need each other: that an initialisation
  that fails does not destroy a mutex in use follows from its holding it
  (`OneOpener`), and that its unanswered call stays within the bound from its running
  alone.
* `ListCorrect` and `HandlesCorrect`, by `Control /\ Listing`: every slot is empty or
  holds one of the three objects under its own label (`WellListed`), and a search
  keeps the label its session was given (`LooksForLabel`), so that an object found
  without the mutex is still the right one when the mutex is taken to list it.
* `TokenRefined` (`Spec => ImplementsTokenService`), by `Control /\ Listing`: a mutex that is
  free or was never made has no owner (`HolderIs`), so that `Control` gives each abstract
  guard; an object that is missing from the list has no slot and the slot it gets lists
  nothing (`AddLooksUp`), which is `WellListed` and that the labels name different objects.
* `SuccessCorrect` (`Spec => []SuccessIsGenuine`), by `Control /\ Answers`: while a
  caller is not disturbed, the status is busy until the chip has answered it
  (`StatusIsAnswer`).
* `AnswersReadRight` (`Spec => []AnswersRead`), for bytes of any number of values, components of
  two bytes or more, signatures of any numbers that fit, any string, any metadata that
  `MetadataAssumption` allows, and whatever is in memory behind it. The recursions
  (weights of digits, the number of a string of bytes, the encoding of entries, the loop)
  are unfolded with the induction of `DataFacts` (`RecursionUpTo`). For signatures: the
  shortest encoding of a number has the places of `DerPlaces`, the decoder drops a
  zero exactly if one was put in front of two digits or more (`StuffedDer`), and more digits
  than a number needs begin with zeros (`PaddedDigits`). For other strings: a zero in
  front does not change a number (`LeadingZeros`, `StuffingDropped`). For metadata: encoded
  entries make a chain of places along which the loop goes (`EncodedChain`); each of its
  iterations stays in a set of places and goes on by a byte at least, so that it ends behind
  the last byte in one of them (`WalkEnds`). Without an algorithm this set has the value 0 only;
  with one, every place behind the algorithm has its value (`AlgorithmIsFound`).

About clean-up and the button, for the same constants as the other theorems of the application:

* `CleanupIsComplete` (`Spec => []CleanupComplete`) and `FlagUpdatesNeverCollide`
  by `CleanupInv` with `TypeOK` and `Accounted`. The report of a lost
  session is the last event of the library, and while it waits for the task or is handled
  by it the callback is idle (`LossComesLast`): so the task's own updates find nobody
  between a load and a store. No message comes before there is a subscriber
  (`NoMessageYet`), which covers start-up. A copy of `status_flag` that somebody is about
  to store then differs from it in `MQTT_CONNECTION_SUCCESS` or `MQTT_MSG_RECEIVED` at
  most (`CopiesAgree`), and the bits that stand for resources follow the order in which
  they are acquired (`Flagged`, `AcquiredInOrder`, `SessionFlagged`, `LinkFlagged`).
* `ButtonAlternates` (`Spec => []ButtonConfiguredInTurn`, in `SupervisionProofs`), by `ButtonInv`
  with the invariant of `SupervisionProofs`. Publish commands aside, the commands in
  `publisher_task_q` alternate (`InTurn`) and begin with the one that the publisher needs
  next (`Awaited`); after the last of them comes what the client task sends next
  (`FollowedBy`, `Upcoming`), which is where the phases of the recovery are needed.

About the commands to the chip, for any tasks and any use they make of it
(`ChipCallsProofs`):

* `SuccessCorrect` (`Spec => []SuccessMeansExecuted`): a task that nobody overlapped has
  its own status while it waits (`OwnStatus`), so that a success it reports is one of the
  chip (`Genuine`). What the operations return differs from one to the next; the facts
  about their entries of `Table` (results of the checks, of a refusal and of a failure)
  are proved first, entry by entry, and the steps use only those.
* `GeneratedKeyCorrect` (`Spec => []GeneratedKeyRead`), from what `Reported` says of a key
  generation at its end: the checks it passed, and that its point was read only from a length
  that the library has set.
* `InstancesCorrect` (`Spec => []InstancesReturned`), for any finite set of tasks: the number
  of instances in use is a sum over the tasks of what each holds. That a step of one task
  changes the sum by what it changes of that task's share is `SumUpdate` of `DataFacts`,
  by induction over finite sets; a task holds an instance exactly from its creation to the
  release at the end of its path, and between two calls it holds none (`Counted`).
* `KeyHeadersCorrect` (`Spec => []KeyHeadersAreDer`), by `AllSupplied`: at the point where a
  command is issued the curve is a supported one and the modulus has 128 or 256 bytes
  (`Ready`), because the checks that end the call otherwise come first in `Table`. For these
  the bytes the code writes are compared with DER: the curves one by one (`PointHeaders`),
  the two sizes of a modulus with the length fields of one and of two bytes (`KeyParts`).
* `PemCorrect` (`[]PemComplete`): the loop that breaks the text into lines is a recursive function
  of the characters already written; induction (`LinesLength`) gives its length, a newline
  to each 64 characters begun. It holds for objects of any length, and says of which lengths the text is whole and of
  which it overruns the boot task's buffer.

About the PAL, for any contexts, users, tasks and timers (`PalProofs`):

* `BusCorrect` (`Spec => []BusHeldByOne`), by `BusInv`: the stages of a transfer exclude
  each other (`OneStage`), whoever waits for an answer is the current context
  (`WaitingIsCurrent`), and one caller at a time is past the semaphore.
* `BusRefined` (`Spec => ImplementsBusService`), by the same invariant: a caller that has
  taken the bus is the holder (`CallerHolds`), and while a transfer is carried out or handed
  over nobody else is in a call (`TaskExcludesCallers`), so that the global context is the
  holder until the answer.
* `EventCorrect` (`Spec => []CalledAsRegistered`), by `EventInv`: until an event is
  registered or destroyed over a one-shot under way, one at most is under way, and what
  is registered is what was asked for when it began.
* `LockCorrect` (`Spec => []LockExclusive`).
* `DatastoreCorrect` (`Spec => []DatastoreRoundTrip`), for buffers of any size that do not
  overlap, wherever they lie, and any data that `uint16_t` can count. By `StoreInv`: a store
  that no write has run into since its own, and whose own data were not too long, has its
  length and its data byte by byte in its place (`Holds`). A write keeps this for the stores it
  does not touch (`WriteKeepsStore`), a secret always fits (`Rooms`), and two bytes hold
  every length (`TwoBytes`).

About the TLS layer, for any contexts, parameters, lengths of messages and of records
(`TlsProofs`):

* `StreamCorrect` (`Spec => []StreamIntact`), by `IoInv`: what mbedTLS has put into records
  is what has been counted as sent plus the record that waits (`IoOk`).
* `HeapCorrect`, `CertificatesCorrect` and `LeaksCorrect`, by `HeapInv`: at each point of a
  connect the pointers of the context tell exactly what it holds (`Exact`), things are
  acquired in one order (`Ordered`), and the pointer to the global root certificate is
  valid except between its release and its replacement.

About RSA in software, for keys, exponents, inputs, random numbers and limits of any size
(`RsaProofs`), from the assumptions that `RsaContext` names: factors of imported keys are
prime and their product is the modulus (D and E may be anything), generated primes are
prime and two of the same size give a product of twice the size, sizes are numbers, and
messages, digests and random strings are strings of bytes. Nothing is assumed of the
arithmetic of the big number library but what `RsaContext` says it computes, and of the
exclusive or only that applied twice it cancels out and that it works bit by bit
(`ExclusiveOrAssumption`, evaluated by the run). The hash function may be any function whose
values have the length of a hash value: the theorems about the paddings say so as their
hypothesis (`HashRight`), which the run cannot evaluate as it is about all strings.

* First, what that arithmetic computes: `PowMod`, which halves the exponent, is the
  remainder of the power (`PowModIs`); `Gcd` is the greatest common divisor, so that
  `Inverse_mod` is an inverse whenever there is one (`InverseIs`); `BitLen` is the least number
  of bits. These recursions are unfolded with the induction of `DataFacts`, which also has
  Fermat's little theorem (`Fermat`).
* `AcceptedKeysWork` (`Spec => []AcceptedKeyWorks`): in an accepted key D and E undo each other
  modulo both primes (`AcceptedFacts`), hence modulo N; the power by the CRT exponent is the
  power by D modulo each prime, and the number that `Crt` puts together has these two
  remainders (`JointFirst`, `JointRange`).
* `ContextsUsable` (`Spec => []IInv`): factors in the context are prime or missing, a modulus
  has its length beside it, blinding values belong to a context that is in use, and unless
  their making was interrupted they undo each other (`Blinded`). This is what the others
  need and no property says: that the factors are prime survives every import, completion
  and failure, so that a key that passes the checks is a key for which Fermat's theorem holds.
* `BlindingValuesConsistent` and `PrivateOperationSound` (`[]BlindingConsistent`,
  `[]PrivateSound`), by `IInv`: squaring keeps Vf^E * Vi congruent to 1 (`UndoSquared`), so that the
  unblinded result is the power; otherwise the last comparison catches it, because a
  number whose power by E is the input is the power by D of the input.
* `GeneratedKeysRight` (`[]GenKeyRight`) and `CompletionRight` (`Spec => CompleteRight`): from
  each set of parts that suffices completion comes to contexts whose numbers fit
  (`SufficientCandidates`), and numbers that fit pass the checks once the CRT parts are
  computed (`FitPasses`). The exponent that is computed from P, Q and E need not be the one
  of the key, but is between 1 and N and fits (`ExponentFits`); factors that are searched for
  may come in either order (`FactorsFit`).
* `PaddingsExact` (`Spec => []PaddingExact`): strings of bytes are taken apart and put together
  (`TwoParts`, `ThreeParts`, `MaskedIs`), a padding is found where it was put and nowhere else
  (`PaddedEnds`, `FoundPadded`). For OAEP both directions follow (`OaepDecodes`,
  `OaepEncodes`). For PSS the lengths are split by whether the bits of the modulus less one
  fill their bytes (`PssSizes`); in both cases what the code checks is that the block is zeros
  and a well-formed encoded message (`PssUnpadIs`), and clearing the top bits before or after
  masking gives the same (`CutTwice`).
* `PaddingsUndone` (`Spec => []PaddingRoundTrip`), by `IInv` and `Made`, which says of what was
  encrypted or signed last which block it comes from. Its number is below the modulus and
  gives back the block (`BytesOfNumber`), the exponents undo each other (`PowModUndone`), and the
  block that signing makes is the one of RFC 8017 (`PssBlockIs`) whenever the salt leaves room
  for it (`SaltFits`): the case that `HasRoom` leaves out is the finding of `pss_boundary`.

Only model-checked are the liveness properties, `ChipProgress` and `PalProgress` among them:
fairness and `ENABLED` are out of the prover's reach. Every invariant and every action
property that a passing run checks is stated by a theorem.

## Not modelled

* `UNSUBSCRIBE_FROM_TOPIC`: nothing in the application sends it.
* Delays (`vTaskDelay`): they let others run, but nothing may rely on how far.
* Printing, the heap report, the logger.
* PKCS#11: attributes that are answered without the chip, failures of `malloc`, leaks, the
  argument checks of each function, and calls made while a failing `C_Initialize` is on its way back (it sets
  `xIsInitialized` for a moment).
* Contents of client identifier, topic and messages; a payload is ON, OFF or
  invalid.
* TLS: certificate profiles (`cy_tls_config_cert_profile_param`), the validity check of a
  certificate, the random number generator, the callbacks' time arithmetic, and the offload
  information, which is compiled out.
* PAL: `pal_os_timer.c` (its tick count is incremented without protection, and only read for
  time stamps), `pal_os_memory.c`, GPIO, the logger. `pal_i2c_init()` without a context
  before the first initialisation dereferences NULL; the model leaves this call out.
* A chip that never answers a command outside PKCS#11: the loops that wait have no limit, so
  that the calling task is then stuck.
* What the PKCS#1 v1.5 decryption returns as its length: the code passes the address of its own
  parameter to the library (`trustm_rsa.c:1736`), so that the caller's variable is not set.
* Memory outside the three buffers of the data store and outside the boot task's text.
* Big numbers, hashes, prime generation: external to `trustm_rsa.c`.
* Build-time configuration (`configs/`): it enters as constants, or by what is compiled in.

## Plan

Every component that keeps state is modelled, and every safety property that the runs check
is a theorem. `Pkcs11` and `ChipCalls` have a pattern in common, an operation of the chip that is
accepted, then answered or given up. It is not stated as an abstract specification of its own:
both share a completion status among callers, so that an answer may reach the wrong one, and
what is left of such a service is what `SuccessIsGenuine`, `DisturbedOnlyBy` and
`SuccessMeansExecuted` say.
