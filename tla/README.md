# PC/SC Proxy in TLA+

PC/SC Proxy lets the applications of one computer use the smart card readers of
another. It has two parts (`README`, section 3): a replacement for
`libpcsclite.so`, loaded into the application, and a daemon on the machine with
the readers, which forks a child for each connection and calls the original
library there. This directory holds a model of both, what TLC checks about it
on small instances, and what TLAPS proves about it for all.

File names below are relative to the root of the repository.

## 1. Inventory

| Part | Source | State | Operations | Model |
|---|---|---|---|---|
| Client library | `src/client/client.c` | context and card tables, two mutexes, `g_tlsopts` | the 20 `SCard*` calls, `pp_exchangeMsg` | `ClientLibrary` |
| Server child | `src/server/server.c:168-793` | one message buffer; contexts and cards in the PC/SC service | `pp_nextMsg`, 19 handlers | `ServerChild` |
| Daemon loop | `src/server/server.c:66-165, 806-1049` | listening socket, wake pipe, `pp_daemon_abort`, children | accept, fork, signal handler, `pp_stop` | `Daemon` |
| Messages | `src/common/message.h` | none | none | `Connection` |
| Session back ends | `src/common/nullenc.c`, `openssl.c`, `tls.c` | socket or TLS session, the bytes read so far | `recv`, `send`, set-up and end of a session | `Framing`; the outcomes in `Connection`, `ClientLibrary` |
| Transports | `src/common/network.c`, `unix.c`, `bluetooth.c` | none | listen, accept, connect | steps of `Daemon` and `Connection` |
| Android service | `android/.../PCSCProxyService.java` | `mThread`, `mHandler`; for each server `mRunning`, `mStopping`, two sockets, a condition; for each connection a condition and two copy threads | start, stop, onDestroy, accept, copy | `AndroidService` |
| Android forms, `pcsctest`, build files | | | | not modelled |

How they interact. A thread of the application calls the library; the library
finds or creates table entries under a mutex, and exchanges one request for one
reply on the session of the context. `SCardEstablishContext` opens that session:
the daemon accepts, forks, and the child serves the session until its end. The
child passes each request on to the PC/SC service of its machine, which knows a
child as a client of its own and forgets what it had open when it exits. On
Android a Java service listens on a Unix socket in place of the daemon, connects
to a Bluetooth device, and copies bytes between the two.

What is hard here:

* **Threads.** The tables are locked, the entries are not: `pp_findContext`
  returns a pointer after it has unlocked, and a session is used by whoever has
  the context. Slots are taken again as soon as they are given back.
* **Failure.** The connection may break before the request, between request and
  execution, or between execution and reply. A child may die. `recv()` may be
  interrupted. SIGPIPE is not ignored. What was set up before the failure stays.
* **Processes and signals.** Children inherit the daemon's descriptors. One
  SIGCHLD may stand for several children. A signal in the wrong place is lost,
  or ends the loop.
* **A stream, not messages.** A read gives any part of what was sent, and a
  signal, an error or an end may come at any byte.
* **Threads that wait for each other.** The threads of the Android service wait
  for conditions they do not test and join each other with a timeout, and the
  fields they go by are set to null by others.
* **Two sets of handles.** The application sees handles of the library, which
  must be mapped to those the PC/SC service gave the child of that context.

What makes the parts correct:

* client library: a thread gets the reply to its own request; a result comes
  from the service; a request names a handle the service knows; the release of a
  context closes its own connection and no other; every call returns.
* server child: a request is carried out at most once; each gets one reply; what
  a client leaves open is closed.
* daemon: a client is accepted or told; each child is reaped; a client whose
  child is gone sees the end of the stream; it stops when told and only then.
* framing: what `recv()` returns is one message, whole, and the next one; its 0
  means the end; it loses its place in the stream only when it must.
* Android service: `start()` and `stop()` return; a side that hangs up stops the
  server; a server told to stop ends; its Bluetooth socket serves one connection.

`PROJECT.json` lists the hazards line by line, with the properties that would
fail, or with the reason why none does.

## 2. The modules

    Connection ----+-- ClientLibrary --+
                   +-- ServerChild ----+-- Proxy -- ProxyInvariant -- MCProxy
                                             |             |
                                       RemoteCalls    ProxyProofs -- ReplyProofs
                                                          -- SessionProofs -- HandleProofs
                                                          -- RemoteProofs

    Daemon -- MCDaemon             Framing -- MCFraming        AndroidService -- MCAndroid
       +----- DaemonProofs           |  +---- FramingProofs        +------------ AndroidProofs
                                MessageChannel

`Framing` is what lies under `Connection`: its `MessageChannel`, without a
receiver out of step, is a connection's sequence of messages. `Daemon` is what
lies under the step of `Proxy` that gives a connection its child.

### Connection

A connection is two sequences of messages, the state of either end, and whether
it has been reset. It is named by the call that opened it. `send()` writes one
`s_message` in one piece and `recv()` reads one, so a message is one element.
The loops of `nullenc_tls_recv` and `ossl_tls_recv` come down to four outcomes:
a message, 0 at the end of the stream, -1, and a -1 after EINTR that leaves the
message in the stream. (In `nullenc.c:159-180` EINTR adds -1 to `bytesRead`; the
comparison with `sizeof` then ends both loops and -1 is returned.) That these
are the outcomes is what `Framing` shows, as long as signals come only between
two messages, which is where `Connection` has them.

A message keeps its command, the handle it carries, the handle it brings back
and its result code; `call` is a ghost that tells which call it belongs to. The
buffer is zeroed before a request is built, so a request has the result code 0,
which is `SCARD_S_SUCCESS`. That matters in `ReceiveEnd`.

`Faults` says which failures an instance has; every one is a branch of an action.

### ClientLibrary

`contextArray`, `cardArray`, `contextMutex` and `tlsopts` are the static
variables of `client.c`; `pc` and `call` are the threads' positions and locals.
A step is a region under a mutex, one call on the connection, or an assignment
the code makes to an entry outside the mutexes.

| Steps | Code |
|---|---|
| `NoEnvironment`, `TlsInitFails`, `NoContext`, `EstablishContext` | `pp_createContext` (150-236) |
| `ContextCall`, `CardCall`, `BlockOnMutex`, `CancelContext` | `pp_findContext`, `pp_findCard`, and the calls up to their exchange |
| `CreateCard` | `pp_createCard` (310-354) |
| `NotConnected`, `OpenConnection`, `Send`, `SendFails`, `EnterRecv`, `Receive...` | `pp_exchangeMsg` (392-520) |
| `FinishEstablish`, `CloseSession`, `FinishRelease`, `FinishConnect` | what the three calls do afterwards (553-567, 599-613, 735-756) |

Most calls only pass a request on. Each has a definition of one line
(`SCardStatus`, `SCardControl`, ...), which says what it returns for a length
that is bad and whether it compares a length of the reply; the steps above are
the same for all of them.

The find and the reading of the payload are one step: between them only a
release of the same context by another thread could change what is read, and
the step before and the step after are open to that. The card mutex is never
held across anything that blocks, so it has no variable. The context mutex has
one because `pp_createContext` can return without unlocking it.

`Discipline` says what the application does with handles. `"own"`: a thread uses
what it established and connected, until it releases or disconnects it. This is
the use PC/SC asks for. `"shared"`: threads use each other's handles, but a
context is released when no other call on it is under way. `"any"`: everything.
With the OpenSSL back end two threads on one session are a data race inside the
library; `"shared"` and `"any"` describe the unencrypted back end.

### ServerChild

`child` is the place in `pp_nextMsg`, `request` its buffer. `service` is the
local PC/SC service, as far as the code uses it: per child, the contexts and the
cards it has open. It refuses handles it does not know, and forgets everything
when the child exits. The handlers differ in the handle they pass on; three do
not do what their name says and are modelled as they are: `SCARD_SETTIMEOUT`
falls through the switch, `handleReleaseContext` stores its result in the wrong
struct, `handleCancelTransaction` passes a card where a context belongs.

### Framing and MessageChannel

One direction of one connection, byte by byte: `nullenc_tls_send` on one side,
`nullenc_tls_recv` on the other. A byte is its message and its place there. A
read of several bytes is several steps, so that every way the stream may be cut
into reads is among the behaviours, and every point where a signal, a reset, or
the death of the sender may come. `bytesRead`, `buf` and `want` are the locals of
`recv()`; `bytesRead` may be -1, and the two loop conditions (`InHeader`,
`InPayload`) compare it as the code does, unsigned. `ossl_tls_recv` and
`ossl_tls_send` (`openssl.c:363-467`) are these loops around `SSL_read` and
`SSL_write`, which may also return 0, or -1 with the `errno` of an earlier call.
`Framing` does not tell that apart: a send loop that goes on forever because
`SSL_write` keeps returning 0 is not in the model.

`inStep` is a ghost: the receiver is where a message begins, or within the one it
is reading. It gets lost when EINTR comes within a header (the last byte is
overwritten), when `recv()` gives up within a message, and when the length is
refused. What a receiver out of step reads as a length is any number
(`Parsed`), and what it returns is garbage.

`MessageChannel` is the promise: messages whole, once, in order, the end
after the last, until the receiver is out of step.

### RemoteCalls

What an application may count on, without tables or processes: a call is carried
out at most once, and answered only after it was. It may also fail, before or
after. `Proxy` implements it (run `Handover`), unless children die, `recv()` is
interrupted, or SetTimeout is called, which the daemon answers without the
service; the mapping reads the phase of a call off `pc` and `rv`.

### Daemon

`main()` from its start, the signal handler, and which process has which
connection open (`holders`). Before the loop something may fail (`Reaches`), and
a signal ends the process as long as it has no handler. A process has at most
`MaxFds` connections open; without a descriptor `accept()` fails and leaves the
connection in the backlog, so that `select()` returns again at once. A child has open whatever the daemon had at the fork. `phase`
is where the loop is: `prepare` is the part between the test of
`pp_daemon_abort` and the moment `select()` blocks, which is where a signal is
lost. Signals are delivered at any phase. In `select` they make it fail, and the
code leaves the loop for any of them. Nothing in the repository calls
`pp_stop()`; it is an action that `Stops` turns on.

`Daemon` and `Proxy` meet in `OpenConnection`, where a connection gets a child
at once, and in `Exit`, where the client learns of its end. `BacklogServed` and
`HungUp` are what `Daemon` contributes to that. A failed `fork()` breaks it: the
client of that connection is never served and never told, and its descriptor
stays taken. `BacklogServed` says that only such connections (`Forgotten`) can
use the descriptors up.

### AndroidService

Three kinds of threads as in the source, one variable for where each is:
`thread` for a `ServerThread`, `connection` for a `ConnectionThread`, `copy` for
its two `ReadWriteThread`s. `pc` is for the actors: callers of the binder, the
looper of `mHandler`, and the main thread, which runs `onDestroy()`. A step is
what a thread does between two points where another can make a difference, such
as two reads of `mThread`. `isStarted()` reads it twice (`IsStarted`,
`IsStartedStill`), and each call of one of its methods reads it again: the later
read may find null, which is an exception, or another server. A read of `mThread`
and of the flags of the server it holds is one step.

| Steps | Code |
|---|---|
| `Start`, `StartTest`, `Create`, `Listen`, `Bind`, `BtConnect` | `start()` and `startServer()` (322-358, 412-439) |
| `Stop`, `StopTest`, `Forget` | `stop()` (307-316) |
| `Destroy`, `DestroyTest`, `DestroyStop`, `QuitLooper`, `JoinLooper` | `onDestroy()`, `stopHandler()` (66-100) |
| `TestRunning`, `MarkStopping`, `WakeServer`, `JoinServer` | `ServerThread.cancelAndJoin()` (449-474) |
| `RunServer` ... `EndServer` | `ServerThread.run()`, `onExit()` (391-411, 475-528) |
| `StartCopies`, `AwaitStop`, `Shut`, `JoinCopies`; `CopyEnds` | the other two `run()`s |
| `AcceptFails`, `StreamsFail` | the exceptions that end a `run()` (298-300, 505-507) |
| `Post`, `RunPosted` | `onTerminated()` and its runnable |

The conditions are as bare as in the code: `Signalled` moves a thread that waits
and is lost on one that does not. A join ends when the thread has ended or the
timeout is over, hence at any time. An exception is handed back to a caller by
the binder if it comes from another process, and ends the process otherwise
(`Throws`, `Dies`). `start()`, `stop()` and `onDestroy()` are not serialised: the
binder has a pool of threads, and the main thread does not wait for them. The
test that `PCSCProxyBinder` makes before it calls `start()` or `stop()` is left
out, since the one in there comes to the same result later. Which clients have
the permission is open. Reads and writes of fields are taken in program order.

One thing is missing here: a server thread that another `start()` has put in
`mThread` and not yet given its listener (339, 340) may be running by then, and
the copy threads of its connection would cancel it themselves (534) instead of
posting.

## 3. The runs

Bounds of `Proxy`: `MaxCalls` calls in all, 1 or 2 slots instead of 64, two
threads. One slot is the case where two threads are forced to reuse each other's
slot and session; two slots show that slots do not mix. Four calls are enough for
one thread to fail or release on a slot, and the other to establish there,
connect and exchange. `CoreOps` takes one call of each kind, `Liveness` all of
them. `Daemon`: three connections, so that a child inherits from two others, and
two descriptors, so that two failed forks use them up. `Framing`: three messages
of 3 to 5 bytes, 3 of them the header (so that there is one before, within and
after the place an interrupt disturbs), and two signals. `AndroidService`: two
callers, two servers, two clients and `MaxEvents` steps of the environment
(calls of `start()` and `stop()`, a connection, a hang-up), besides `onDestroy()`,
which comes once at any time. Three are enough for a server, its client, and a
hang-up or a `stop()` that races what follows; for a server and two `stop()`s;
for two `start()`s that both pass the test and replace each other's server.
`LateCancel` has four. The application may stop calling
at any time, the daemon and the service may end, so deadlock is not checked.

| Run | Instance | Shows |
|---|---|---|
| `Handover` | 2 threads, 2 slots, 4 calls; all failures but exit, interrupt, SIGPIPE and environment | `ReplyToItsCall`, `ReplyInvariant`, `HandleKnown`, `HandleInvariant`, `AnswerInvariant`, `SessionsNotShared`, `NoCrash`, `ImplementsRemoteCalls` |
| `Shared` | shared handles, 1 slot, 4 calls; reset, refused, exit, service | `OneReplyPerWaiter`, `NothingLeftOpen`, `SharingInvariant`, `SharedContextKnown`, `ContextInvariant`, `NoOrphans` |
| `Undisciplined` | any handle, 1 slot, 3 calls; reset, exit, SIGPIPE, interrupt, environment | `AtMostOnce`, `OnceInvariant` |
| `Liveness` | every operation, 1 slot, 3 calls; every failure | `CallsReturn`, `StraysAreLate`, `StrayInvariant`, `UnansweredOnlyAfterExit`, `ConnectionInvariant`, `TypeOK` |
| `DaemonLoop` | 3 connections, 2 descriptors; start-up, accept and fork fail, SIGTERM, SIGCHLD and `pp_stop` | `BacklogServed`, `ZombiesNoticed`, `HungUp`, `HoldersInvariant`, `DaemonTypeOK` |
| `Framing` | 3 messages; signals, reset, a sender that dies | `InOrder`, `EndIsEnd`, `InStepUnless`, `FramingInvariant`, `RecvReturns`, `ImplementsChannel`, `FramingTypeOK` |
| `AndroidService` | 2 callers, 2 servers, 2 clients, 3 events and `onDestroy()`; exceptions | `StopReturns`, `HangUpStops`, `ServerEnds`, `BluetoothUsedOnce`, `ServiceTypeOK` |

Five runs show where the code departs from what the repository says of it.

| Run | Violates | Because |
|---|---|---|
| `EofIsSuccess` | `ResultsComeFromTheService` | `pp_exchangeMsg` takes the end of the stream (0) for a reply; the request's own rv, 0, becomes the result |
| `StaleSession` | `EstablishOpensConnection` | a failed `SCardEstablishContext` leaves its session in the slot |
| `DaemonSignal` | `AbortStops` | a signal between test and `select()` is lost: the handler does not use the wake pipe |
| `DaemonEnds` | `StopsOnlyWhenTold` | the exit of a child interrupts `select()`, which ends the loop |
| `LateCancel` | `CancelFindsServer` | the runnable of `onTerminated()` reads `mThread` after `stop()` has set it to null |

Further departures are in the model without a run of their own: the daemon
answers SetTimeout itself (`Execute`); `SCardCancel` looks a context up among the
cards and refuses it (`CancelContext`); `SCardDisconnect` and
`SCardReleaseContext` do not give a card's slot back, so the table fills up; the
result of ReleaseContext is lost (`Reply`); `recv()` refuses a message of exactly
`PP_MAX_MESSAGE_LEN` bytes (`TooLong`), which handlers may build; a `start()` that
finds no Bluetooth device leaves its server socket open (`BtConnect`); a second
`start()` before the first one's thread runs replaces it (`Create`); the runnable
of one server may cancel the next (`RunPosted`).

**Fairness.** `CallsReturn` and `NoOrphans` need that threads inside the library
and children with something to do are scheduled (`Fairness` in `Proxy`), and
that the PC/SC service answers: a child inside `SCardGetStatusChange` without a
timeout waits as long as the service does, and no other request gets past it on
that connection, `SCardCancel` included. Nothing makes the application call.
`FairSpec` of `Daemon` has the daemon scheduled and SIGCHLD delivered to it;
clients need not connect, children need not exit, nobody need send SIGTERM.
`FairSpec` of `Framing` has either end go on once it is in `send()` or `recv()`;
nobody need call them, and signals and resets need not come. `Fairness` of
`AndroidService` has threads that can run scheduled and a read return when its
socket has come to its end; a copy thread whose Unix socket another thread has
closed need not return from its read. No call of `start()` or `stop()`, no client
and no hang-up need come.

`CallsReturn` excuses threads of a process that has died and threads blocked on
the context mutex that `pp_createContext` never unlocks. `RecvReturns` excuses a
receiver out of step, which waits for the bytes of a length nobody sent.
`ServerEnds` says of which servers the code makes sure that they end: those that
wait for the signal when it is sent, and those without a client. A server whose
client has come in between hears nothing and waits for good; `stop()` returns
all the same, after its timeout. The liveness properties of `AndroidService`
speak of a process that runs: each is satisfied by one that an exception has
ended, and `HangUpStops` by a service whose looper has quit as well.

## 4. What is proved

For every value of the constants, with TLAPS. In `ProxyProofs` to
`RemoteProofs`, each of which extends the one before:

| Theorem | Establishes | Assumes |
|---|---|---|
| `TypeCorrect` | `TypeOK` | |
| `ReplyInvariantCorrect`, `ReplyCorrect` | `ReplyInvariant`, `ReplyToItsCall` | discipline `"own"`, no interrupts |
| `HandleInvariantCorrect`, `HandleKnownCorrect` | `HandleInvariant`, `HandleKnown` | discipline `"own"`, no interrupts |
| `AnswerInvariantCorrect`, `RemoteCallsImplemented` | `AnswerInvariant`, `ImplementsRemoteCalls` | discipline `"own"`, no interrupts, no child dies (`exit`), no SetTimeout |
| `OnceInvariantCorrect`, `AtMostOnceCorrect` | `OnceInvariant`, `AtMostOnce` | |
| `ConnectionInvariantCorrect`, `SessionsCorrect`, `UnansweredCorrect` | `ConnectionInvariant`, `SessionsNotShared`, `UnansweredOnlyAfterExit` | discipline `"own"` or `"shared"` |
| `NoCrashCorrect` | `NoCrash` | discipline `"own"` or `"shared"`; `PCSC_NULLENC` is set, no SIGPIPE |
| `StrayInvariantCorrect`, `StraysCorrect` | `StrayInvariant`, `StraysAreLate` | discipline `"own"` |
| `SharingInvariantCorrect`, `OneReplyCorrect`, `NothingLeftOpenCorrect` | `SharingInvariant`, `OneReplyPerWaiter`, `NothingLeftOpen` | discipline `"own"` or `"shared"`, no interrupts |
| `ContextInvariantCorrect`, `SharedContextCorrect` | `ContextInvariant`, `SharedContextKnown` | discipline `"own"` or `"shared"`, no interrupts |

and in `DaemonProofs`, `FramingProofs` and `AndroidProofs`:

| Theorem | Establishes |
|---|---|
| `DaemonTypeCorrect`, `ZombiesCorrect` | `DaemonTypeOK`, `ZombiesNoticed` |
| `HoldersCorrect`, `HungUpCorrect` | `HoldersInvariant`, `HungUp` |
| `FramingTypeCorrect`, `FramingInvariantCorrect` | `FramingTypeOK`, `FramingInvariant` |
| `InOrderCorrect`, `EndIsEndCorrect`, `InStepCorrect` | `InOrder`, `EndIsEnd`, `InStepUnless` |
| `ChannelImplemented` | `ImplementsChannel`: the loops implement `MessageChannel` |
| `ServiceTypeCorrect`, `BluetoothCorrect` | `ServiceTypeOK`, `BluetoothUsedOnce` |

**Replies.** `ReplyToItsCall` is not inductive: that the head of a stream is a
thread's own reply says nothing about the reply behind it, or about another
thread on the same session. `ReplyInvariant` (in `ProxyInvariant`) adds why this
does not happen:

1. `SlotInvariant`: the slot of a call under way is in use and its thread may
   use it, and a thread that sets a context up or releases it has the slot alone.
   With discipline `"own"` every call under way has.
2. `SessionInvariant`: calls and sessions have names of their own, no two slots
   have a session in common, and a thread in `recv()` waits on its slot's session.
3. `MessageInvariant`: on a session there is at most one of a request, a request
   being served, and a reply, and the thread whose call it is awaits it.

So the only thread that can read a reply is the one it belongs to. A session left
by a failed call carries nothing: the call has taken its reply, or the error has
broken the connection. That is the step that fails when `recv()` is interrupted,
and why the theorem excludes it; `StraysAreLate` says what then remains true.

**At most once.** `OnceInvariant` follows one call through its places: with its
thread, not yet sent; on its way; in the hands of a child. It is in one of them
only, and not carried out before it leaves the last. Neither a discipline nor a
working connection is needed for that.

**Sessions.** `ConnectionInvariant` keeps the first two parts of
`ReplyInvariant`, which neither interrupts nor shared handles disturb, and adds
that a session in the table is open, that nothing has happened on one that was
not opened (`UnopenedEmpty`), that a context has one from its first exchange to
its release (why no null session is dereferenced), and that a call that took the
end of the stream for a reply has the end of a child on its session. It needs
`OnceInvariant` for the numbers the requests carry.

**Strays.** When `recv()` is interrupted, the call fails and its reply stays in
the stream, where the next call on that session takes it for its own.
`StraysAreLate` says that this is all that goes wrong: what a thread takes is
about its own call or one that has given up before. `StrayInvariant` says why:
whatever a session carries is about the call that uses the session now or about
an earlier one (`CarriedEarlier`); a call that is carried and has not given up
awaits its reply there (`CarriedAwaited`); an idle thread has no call
(`IdleUnnumbered`), so nothing carried is taken for its next one.

**Sharing.** Threads that share a context may take each other's replies, since
a reply does not say whose it is. What they can count on is that each gets one:
`OneReplyPerWaiter`. Its inductive form is an equation, `WaitersCounted`: on a
working connection the threads that wait are as many as the requests on their
way, the one in service and the replies on their way, together. A thread joins
both sides when it sends and leaves both when it receives. The same equation
gives what shared contexts keep of `ReplyInvariant`: a thread that sets a context
up or releases it is alone on its session, so the one reply there is its own.
Hence it knows what the child did: while a context is set up, the child has
something open only if it has reported so (`EstablishFromEmpty`), and a context
is given up only after its session (`ReleasedSlotEmpty`). So what the service has
open behind a working connection belongs to a context in use
(`NothingLeftOpen`): the session a failed `SCardEstablishContext` leaves in its
slot, which the next one takes over, has nothing open. An interrupted `recv()`
breaks the equation, as the thread leaves without its reply, and
`NothingLeftOpen` with it: the context of an interrupted `SCardEstablishContext`
stays open in the child.

**Handles.** `HandleKnown` speaks of a request in a child's hands; what makes it
true is spread over both tables and everything under way on the session.
`HandleInvariant` (with `ReplyInvariant`, on which it rests) says where a handle
may be: a context or card the application holds is open in the child of the
context (`ContextKnown`, `CardKnown`); a request not yet carried out names
something open (`CallBacked`, `SessionBacked`); and so does a reply that brings a
handle, until it is stored. A handle stops being open when its own
ReleaseContext or Disconnect is carried out, or with its context. So no request
under way may name what the application still holds, which is `CardApart`: no
two cards it holds on a context, and no card being connected or disconnected
there, have a handle of the service in common. `CardClaimed` keeps the entry of a
card being connected from being taken twice. Cards of a released context stay in
the table with a pointer to an entry that is used again; they do no harm because
the application has given up their handles with the context's.

**Shared handles.** Threads that share a card may find it disconnected by
another, so `HandleKnown` is too much to ask of them. Of contexts it remains true
(`SharedContextKnown`), since nobody releases one while others use it.
`ContextInvariant` keeps `ContextKnown` and follows the messages of a session as
sets (`Requests`, `Replies`), because there may be several of them: each request
of a context names an open one; a request to release it is there only while the
thread that releases it waits, which by `SharingInvariant` means that it is the
only request (`RequestsNamed`); and to a thread that sets a context up comes the
handle of one that is open (`GrantNamed`). So when the service closes a context,
no handle of it is held, no request for it is under way, and no thread is about
to send one.

**Refinement.** `RemoteCallsImplemented` rests on all of the above and on
`AnswerInvariant`: a call has an outcome when its exchange is over and not
before; what a child is about to reply, or has replied, has been carried out;
and a child that has closed its end left the connection to a client that had
closed or broken it, so that nobody takes its end for a reply. With
`OnceInvariant` a request is carried out while its call is open, with
`ReplyInvariant` a reply answers the call that was carried out, and every other
step changes neither phase nor count. What it assumes is what breaks the
promise: a child that dies and a `recv()` that is interrupted hand the
application answers that are not the service's, and SetTimeout is answered by the
daemon without the service.

**Daemon.** `HungUp` needs `HoldersInvariant`: the daemon handles one connection
at a time, what it forgets to close (after a failed fork) has no child, and so a
child inherits besides its own connection only such ones.

**Framing.** `FramingInvariant` has two parts. `PlacesInvariant`: both places are
within the messages, and the receiver is not ahead of the sender. `InMessage`: a
receiver in step that has read `n` bytes has the first `n` bytes of the message
after those it has returned in its buffer, and knows its length once the header
is complete. The proofs add what a result says when it is returned (`Results`).
Since `len` is any function from messages to sizes, the theorems hold for every
sequence of message lengths and every way of cutting the stream.

**Android.** `BluetoothUsedOnce` needs that a server whose connection has begun
is past accepting another: it leaves its wait only by the signal, which comes
after `mStopping` (`StopsAfterFirst` in `AndroidProofs`).

The assumptions are those of the modules (`BoundsAssumption`,
`ClientAssumption`, `DaemonAssumption`, `FramingAssumption`,
`ServiceAssumption`): names differ, bounds are naturals, the sets of failures are
subsets of those named. TLC evaluates them in the runs.

Only model-checked: liveness (`CallsReturn`, `NoOrphans`, `BacklogServed`,
`RecvReturns`, `StopReturns`, `HangUpStops`, `ServerEnds`), which this prover
cannot show. Every invariant and every safety property of a step that a passing
run checks has its theorem.

## 5. What is not modelled

* The payload beyond handles and result codes. Where a call compares lengths,
  the model refuses or not, at will (`BadArguments`, `ChecksReply`).
* Handles the library has never given out, such as the one past the end of the
  tables that `rid > PP_MAX_CONTEXT` lets through.
* What a client other than `client.c` may send. The handlers take lengths as they
  come, and what happens then is undefined.
* An application or daemon that goes on with a stream out of step: `Framing`
  says when that happens, `Connection` leaves it out. So its interrupts come
  between messages only.
* TLS and the SRP login, addresses, Bluetooth service records, log formatting.
* In the Android service `mSocketName`, the bytes copied, the permission check,
  the stores to fields seen late by other threads, and the forms.

## 6. Plan

Done: `Connection`, `ClientLibrary`, `ServerChild`, `Proxy`, `RemoteCalls`;
`Daemon` with its start-up and descriptors; `Framing` and `MessageChannel`;
`AndroidService`; and the proofs of section 4. Left, in this order:

1. `Lengths`: the arithmetic of the length fields in client and handlers, with
   32-bit wrap-around scaled down, against what the buffers hold.
2. Composition of `Daemon` and `Proxy`, with the failed fork as a lost child, and
   of `Framing` and `Proxy`, with messages lost to a stream out of step.
3. Cards that threads share: which card calls may fail because another thread has
   disconnected the card, and that no other does.
