# A verification project for the sippy B2BUA

TLA+ models of the B2BUA in `src/sippy`: the call path, from the datagrams of one
SIP transaction up to the call that connects two legs and leaves the call map;
the RTP proxy client and its sessions; the event loop and the threads around it;
and the conversions that calls depend on. TLC checks the models on small
instances; TLAPS proves the safety properties of every module that has steps (the
call path with its established dialogs, the RTP proxy client and sessions, the
thread pools, the command line, the RTP end point, the registration agent and the
accounting record) for every value of the constants. `PROJECT.json` lists
components, runs, the lines each definition stands for, findings, hazards and
theorems.

## 1. The system

One single-threaded process runs an event loop (`Core/EventDispatcher.py`);
handlers of datagrams, timers and callbacks run to completion. Worker threads
serve sockets, the RADIUS helper program and stream connections to RTP proxies;
they hand results to the loop by `callFromThread`.

| Component | State | Operations | Talks to |
|---|---|---|---|
| `SipTransactionManager`, client side | `tclient`: state, timers A B C G, `cancelPending`, `uack`; cache `l1rcache`/`l2rcache` | `newTransaction`, `cancelTransaction`, `sendACK`, responses, timers, `rCachePurge` | network; `resp_cb` of a UA |
| the same, server side | `tserver` (keyed by branch, after a final response by To tag): state, timers A D E F, last response, callbacks | requests, CANCEL, ACK, `sendResponse`, `doCancel`, timers | network; `recvRequest`, `cancel_cb`, `noack_cb` of a UA |
| outgoing leg: `UA` with `Uac*` states | state, setup timers, credit timer, INVITE in progress, `equeue`/`elast_seq`, `late_media`, `pending_tr` | `recvEvent`, `recvResponse`, `recvRequest`, `disconnect`, timers, SDP callbacks | transaction manager; call controller (events, `conn_cbs` ...); RTP proxy session |
| incoming leg: `UA` with `Uas*` states | state, setup timers, transaction, `equeue` | `recvRequest`, `recvEvent`, `cancel`, `recvACK`, timers, SDP callbacks | the same |
| established dialog: `UaStateConnected`, `UacStateUpdating`, `UasStateUpdating` | both SDPs, pending re-INVITE, keep-alive timer | re-INVITE both ways, keep-alive, INFO, BYE | the same |
| `CallController` (`b2bua.py`) | `state`, `uaA`, `uaO`, `routes`, `acctA`, `acctO`, `auth_proc` | `recvEvent`, `rDone`, `placeOriginate`, `aConn`, `aDisc`, `aDead`, `oConn`, `oDead`, `group_expires` | both legs, RADIUS, call map |
| `CallMap` (`b2bua.py`) | `ccmap`, `safe_restart`, `safe_stop` | admission, `discAll`, safe restart and stop, collector | call controllers, signals |
| RADIUS: `Radius_client`, `RadiusAuthorisation`, `RadiusAccounting` | `crec`, `drec`, alive timer | `do_auth`, `conn`, `disc`, `asend` | `External_command` |
| `External_command` | queue of work, worker threads | `process_command`, cancel, shutdown | the loop |
| RTP proxy session, side, update, sequencer | per side: origin, media, pending updates; commands in flight | `_on_sdp_change`, `update`, `delete`, `send_command` | RTP proxy client, legs |
| RTP proxy clients | online/offline, pending requests, heartbeat and capability timers | `send_command`, retransmission, `heartbeat`, `go_online`, `go_offline` | the proxy |
| `EventDispatcher`, `Timeout`, `Signal` | heap of timers, threads' callbacks, `twasted` | `regTimer`, `cancel`, `dispatchTimers`, `callFromThread`, `breakLoop` | everything |
| `Udp_server`, `CLIManager`, `SipLogger` | queues and buffers under a condition, threads | send, receive, accept, reply, close, reopen, shutdown | sockets, the loop |
| `SipRegistrationAgent`, `StatefulProxy`, digest classes | one REGISTER at a time, timer, attempts; nonces | `doregister`, `gotreply`, challenges and credentials | transaction manager |
| `RTPEPoint`, `RTPOutputWorker`, `RTPInStream`, `Singletons` | parameters, channel, writer, buffers, shared server and processor | `update`, `soundout`, `shutdown`, `rtp_received`, `_proc_in` | RTP server and processor (a library) |
| messages, descriptions, addresses, routes | values | reading, writing, deriving one from another | everything |
| web interface, sample applications, tools | | | |

What is hard here: lost, repeated and reordered datagrams against timers and a
cache of two generations; a CANCEL crossing an answer in either direction; a
UA's callbacks made from the middle of a handler, which may raise; bodies that
wait for the RTP proxy while the leg moves on, so that events come out of order;
three setup timers that take turns; a caller that hangs up while the call is
authorised, hunting, or just answered; legs that die in any order; two far ends
that update the call at the same time; commands to the RTP proxy that are sent
again, given up, or answered late; a stop or restart in the middle of anything;
threads that wait under a condition while the main thread shuts them down.

What makes each part correct: a transaction tells its user one outcome, once,
and ends; a leg is watched by a timer while it is set up, never leaves an
answered callee in a call nobody has, reports its end, and dies; a call ends
both sides whoever hangs up, tries one route at a time, closes its records, and
is in the call map exactly as long as one of its legs lives; an update of a
connected call is settled on both sides; the commands of a session reach the
proxy in order and are answered once; no thread sleeps over work, and every one
ends; what one side writes is what the other side reads.

## 2. The modules

`UasCall` and `UacCall` stand on what `ServerTransaction` and
`ClientTransaction` show, `CallController` and `Dialog` on what the two legs
show, `CallMap` on `CallController`; each header says what is taken over. A
variable has the name of the field it models. One action is one handler with
every callback it makes. Where a handler of one object calls the next one
(`Dialog`, `RtppClient`, `RtppSession`, `CallMap`) a handler is an operator from
a record of the state to the record, or the set of records, it leaves, and the
action takes the whole chain as one step. Properties are at the end of each
module; a definition just before another one that it could replace
(`NoOldGeneration`, `TakeMarker` ...) is the variant that `PROJECT.json` uses to
show that a property can fail.

The call path:

| Module | Models | Left out |
|---|---|---|
| `ClientTransaction` | one request, its CANCEL, both cache generations and the network (`wire`: what the far end has sent may arrive any number of times, or never). Timers are the set the dispatcher holds, not the fields `cleanup()` clears | addresses, headers, the wording of messages |
| `ServerTransaction` | the transactions that copies of one request open, CANCEL, ACK, the UA that owes an answer | loop detection (in `Messages`), consumers |
| `UaEvents` | `equeue`, `elast_seq` and `emitPendingEvents()` as operators | |
| `UacCall` | an outgoing leg: all choices of the four times, challenges, offers without SDP, RTP proxy answers at any time or never | what `Dialog` has |
| `UasCall` | an incoming leg: CANCEL, expiry, BYE, ACK with or without a body, RTP proxy on both bodies | what `Dialog` has |
| `Dialog` | both legs of a connected call and the events between them: re-INVITEs of either far end, their CANCEL, expiry and missing ACK, keep alives, REFER, INFO, BYE, hang-up; the RTP proxy holds or refuses the bodies of the callee's leg; a handler may raise, and what it leaves behind is there | the text of bodies |
| `CallController` | a call with its routes, authorisation, accounting and place in the call map; a leg is what the leg modules show of it | `group_expires`, PreConnect |
| `EventDispatcher` | the heap of timers with cancelled entries and `twasted`, periodic timers, `callFromThread`, its synchronous form, `breakLoop` | `ED2.loop(timeout)` |
| `CallMap` | extends `EventDispatcher`: requests outside a dialog, SIGHUP, SIGPROF and SIGTERM, the collector, `executeStop`, a thread of the web interface | the parts of a call |

The RTP proxy:

| Module | Models | Left out |
|---|---|---|
| `RtppClient` | the UDP client: retransmission, giving up, replies late or twice; version check, capability queries, heartbeat, going on line and off line, shutdown | addresses, statistics of delays (any first interval of a set) |
| `CommandQueue` | the abstract specification: commands are carried out one at a time, in order, none lost | |
| `RtppSession` | the session with its sequencer: bodies of several sections, prompts, recordings, media time-outs, errors, the end of the call; `Queue == INSTANCE CommandQueue WITH ...` is the refinement | the text of commands (in `RtppReplies`) |
| `RtppReplies` | subcommands for DTLS and ICE, the reply to an update, the section rewritten by it, a command taken apart and put together | |

Threads:

| Module | Models | Left out |
|---|---|---|
| `Workers` | one pool per behaviour: `External_command`, `Udp_server`, the RTP proxy stream client, `SipLogger`. `wait()` and `notify()` are modelled (a thread is "waiting" until it is notified) | address look-ups, artificial delay and loss, WebSockets |
| `CommandLine` | the listener with its acceptor, a connection with reader and writer threads, `recvCommand()` on the main thread | the text of replies |
| `RtpEndpoint` | an RTP end point in which four threads meet, its workers, channels and shared references; frames and bytes are counted | codecs, resampling but for its length |

Conversions, each with what it means as a property over a bounded set of inputs:

| Module | Models | Left out |
|---|---|---|
| `Messages` | TIDs, ACK, CANCEL, Vias and NAT, the stateful proxy, route sets, lengths of bodies | |
| `Addresses` | SIP URLs, addresses with names, our own address | `tel:` conversion |
| `HeaderFields` (extends `Addresses`) | a message taken apart into lines, fields and body and written again, lists of addresses and Vias, header fields that are parsed when they are asked for, their copies, bodies of several parts | classes that only give a field its name; message text is cut into tokens |
| `Sdp` | reading and writing descriptions, origins, the payload policy (`filter_SDP`) | |
| `Digest`, `Registration` | nonces, challenges, credentials (a hash is what was hashed); the registration agent against its registrar | |
| `Routes` | text of a route, `customize()`, copies, next hops, the list `rDone()` places | transforms |
| `RadiusRecords` | a record with Start, Alive and Stop; attributes through the RADIUS client | which attributes are sent |

`MC...` is the module a run names; `MCThreads` puts `Workers` and `CommandLine`
side by side, `MCLibrary` the conversions, the agent, a record and an end point:
a behaviour is one of them, chosen at the start. `..._proofs` hold the theorems.

In `CallController` the body of an answer may wait on the outgoing leg only: no
code of `b2bua.py` gives `uaA` an RTP proxy callback for its local SDP.

## 3. The runs

A property that a run names is often a conjunction of properties with names of
their own (`ToldOnce == FinalOnce /\ AckBeforeTold`); the parts are listed too.

| Run | Instance | Shows |
|---|---|---|
| `client` | one response of each class, one retransmission | `ToldOnce` (`FinalOnce`, `AckBeforeTold`), `KeptDespiteRaise` (`CancelExactlyOnce`, `NoStrayTimer`), `AckReplayed`, `Concludes` |
| `server` | two transactions for one request | `AnswerAccepted`, `OneTransaction`, `ConsistentOutcome`, `Concludes` |
| `uac` | times 0, 1, 2 each; two INVITEs; three events before no more optional ones come | `LegGuarded` (`SetupTimed`, `CreditEnforced`), `EndsLast` (`OnlyEndsAfterEnd`), `AnsweredIsEnded`, `EndsDead` |
| `uas` | times 0, 1, 2 each; three events | `LegGuarded` (`AnswerTaken`, `SetupTimed`, `CreditEnforced`), `EndsLast` (`NoCallAfterEnd`), `EndsDead` |
| `cc` | three routes, the second one without a record | `OneLiveLeg` (`NoOrphan`, `OneLegAtATime`), `RecordsSettled`, `InMapWhileAlive`, `Collected` |
| `cc_routes` | the same | **violation** of `TriedOneByOne` |
| `dialog` | two bodies | `UpdatesPaired` (`ReplyTaken`, `OfferHasAsker`, `KeepAliveAlone`), `EndHeard` (`EndTogether`, `FarEndKnows`), `SdpAgree`, `UpdateSettled` |
| `rtpp_client` | three cookies, one session, two capabilities | `ClientSound` (`AnsweredOnce`, `NoStrayRetransmit`, `OneWatch`), `BackOnline` |
| `rtpp_session` | two bodies of up to two sections, one prompt or recording | `SessionSound` (`AnsweredOnce`, `DoneIsComplete`, `Released`), `InOrder` (the refinement), `Deleted` |
| `callmap` | two calls, or two timers of calls | `CallsKnown` (`MapIsExact`, `StopReachesAll`, `StopTimerKnown`, `RestartSpares`), `LoopServes` (`SleepsHalfLive`, `Stops`, `SyncAnswered`) |
| `threads` | two threads a pool (one for the log), three items, two deaths of helpers, three commands | `PoolSound` (`OnePlace`, `NoLostWakeup`, `MarkerKept`), `PoolSettles` (`CancelledNotStarted`, `Stops`, `Settled`), `CliSound` (`RepliesInOrder`, `Flushed`, `WriterAwake`), `CliSettles` (`Released`, `ListenerStops`) |
| `library` | see `MCLibrary` | `RegistrationSound` (`NonceMeans`, `CredentialsJudged`, `OneChain`, `NoHammering`), `BillingSound` (`RecordsSound`, which is `StopIsLast` and `ChargedTime`; `AttributesMean`, `CreditLimited`, `StaticUntouched`, `FamiliesKept`), `MessagesSound` (`Matched`, `LoopsSeen`, `Returns`, `AcksVisit`, `BodiesKept`, `UrlsReadBack`, `UrlsSettle`, `OwnLeadsBack`, `OwnViaLeadsBack`, `AddressesReadBack`, `FieldsKept`, `ListsKept`, `MessagesKept`, `PartsKept`), `DescriptionsSound` (`SdpReadsBack`, `OriginsFollow`, `PolicyKept`, `GatewaySeparates`, `RepliesJudged`, `CommandsKept`), `EndpointSound` (`Accounted`, `WholePackets`, `OneStream`, `RefsExact`, `NothingLeft`, `Follows`, `StreamInOrder`), `KeepsGoing` (`AgentKeepsTrying`, `Played`) |

The type invariants are part of these conjunctions, except in
`ClientTransaction`, `ServerTransaction` and `CallController`, where they are
proved.

**Bounds.** *Transactions.* Two distinct responses of one class add nothing to
one: what the code tells apart is whether a datagram is in the cache, and one
response can be delivered any number of times. A second firing of timer A
repeats the first one with a longer time-out. Two transactions are what it takes
for one to be opened wrongly. `age` and `bornAge` count two purges: later is all
the same. *Legs.* Times 0, 1 and 2 are "unset", and two that can be compared
both ways (`NoReplyLimit` stands for the 32 s that `UacStateIdle` compares
with). Two INVITEs let a challenge come before or after anything else. `MaxSeq`
bounds only what may be repeated for ever (1xx, INFO, `CCEventConnect`), never an
end of a call. *Call.* With three routes one leg can be replaced and another be
in progress while a third is placed. *Dialog.* Two bodies tell an update from
what was there before; nothing else is bounded. *RTP proxy.* Three cookies let a
heartbeat, a session's command and a version check be in flight at once; the
times keep the order of the code's (a heartbeat lasts longer than a command, the
retry interval longer than both). Two bodies, one from each side, and a third
kind of command are what can overtake each other in the sequencer. *Loop.* Two
calls, or two timers of calls with a heap that one dead entry can tip;
`StopTries` 2 for 5: the first try, and the last. *Threads.* Two threads let one
take what the other was notified for; three items fill a queue that keeps one.
*Library.* The inputs are those that take different ways through the code
(`InputsOf`); a registrar accepts, refuses, challenges with each algorithm, or
answers what cannot be read. The RTP end point is updated twice, is given two
chunks of sound, and is shut down twice, three of these together (`Plays`): two
updates let one raise and the next one meet what it has left, and a shutdown can
come into any step of either. One that receives packets plays nothing, because
the two directions share nothing but the channel. The run takes about two
minutes.

**Fairness.** Every assumption is a fairness of something the process does by
itself: the dispatcher runs timers that are due and calls that were handed over;
time passes; a leg whose end has come dies (`EndsDead`, used by `Collected` and
`UpdateSettled`); runnable threads are scheduled. Nothing is assumed of the
network, the callee or the UA that should answer, and one thing of the far end:
every provisional response that the cache does not know cancels timer B and starts
it again (`Rearms`, `SipTransactionManager.py:477-489`), so that one that sends them
for ever keeps its request open for ever. `ClientTransaction` is fair to timer B
only if this stops, and `Concludes` has it as a premise; the registration agent
takes over that its REGISTER ends (`FinalAnswer`), of a registrar that does not do
this. `UacCall` needs no such thing: its own timers end a leg that is to end.
`BackOnline` says what it needs of the proxy in its premise (`<>[]up`). Strong
fairness is used for the clock (`Tick`) and a turn of the loop only, which other
steps disable for a moment, again and again. Two assumptions are about
neighbours: that the RTP proxy session calls back about the offer (`LocalSdpDone`
of `UacCall`), and that the client reports every command of a session (`Result`
of `RtppSession`), which `ClientSound` shows. The first one has an exception, see
`session.py:168` below.

**Exceptions.** A callback of a UA may raise in the transaction modules. The
variable `raised` remembers it, and the properties that need a well-behaved UA
say so; `NoStrayTimer`, `CancelExactlyOnce`, `OneTransaction` and
`ConsistentOutcome` do not need one. In `CallController` the variable `lateEnd`
plays the same part for a leg that reports its end twice, in `Dialog` the
operator `Benign` for refused bodies and requests, in `Registration` `regraised`
for a `gotreply()` that raises before its timer, in `RtpEndpoint` `failed` and
`resampled`. `RtpEndpoint` also names what a call that raised leaves behind
(`leaked`: channels nobody will close, `kept`: the server was not given back), so
that `NothingLeft` and `RefsExact` hold of everything else.

**Deadlock.** Legs, calls, sessions, pools and connections end: their runs switch
the check off. The runs `client`, `server` and `rtpp_client` keep it on: a cache
purge, or the passing of time, always remains possible.

### What disagrees

`cc_routes`: any end event that is not of `uaA` makes the call controller place
the next route (`b2bua.py:210`). A leg that failed for the body of a response
keeps a setup timer, which reports a second end (`UA.py:248`, reached from
`UacStateTrying`); a further route is then placed while one is in progress.
`documentation/documentation.md:276` says that they are tried one by one.

The models have what the code does in these cases too; the properties exclude
them, or do not speak of them:

- A far end that repeats 180 more slowly than the cache forgets it (two purges of
  32 s) and faster than `t.expires` postpones timer B for ever
  (`SipTransactionManager.py:477-489`).
- `t.uack` is read before the callback that sets it (`SipTransactionManager.py:533`
  and 121-122): the ACK of a call without an offer goes out without the answer,
  and the later `sendACK()` raises (`Raises` of `UacCall`).
- A CANCEL that crosses the final response is answered by 481
  (`SipTransactionManager.py:638`), where the comment at 612 asks for 200.
- A challenge of a cancelled INVITE is answered by a new one (`UA.py:222`), and
  `UacStateCancelling` goes on waiting for it.
- A 2xx that reaches a failed or dead leg is acknowledged and ignored
  (`UaStateGeneric.py:46`).
- A call refused for its Max-Forwards makes a UA without a state, and is never
  removed from the map (`b2bua.py:352`; excluded from `Collected` by `hops`).
- `group_expires()` indexes `B2BRoute` objects and raises (`b2bua.py:406`).
- A re-INVITE whose answer is a ring or a redirect is not answered: the handlers
  of `UasStateUpdating` return what `recvEvent()` cannot unpack (lines 84 ff.).
- `on_caller_sdp_change()` drops the body that `_on_sdp_change()` returns when no
  section needs an update: the event that waits for it is never handed over
  (`Rtp_proxy/session.py:168`). A second section that cannot be used raises after
  the update of the first one has been sent; callbacks of prompts and recordings
  do not take the `ex` they are given.
- SIGTERM is lost if the disconnection of one call raises (`b2bua.py:540`:
  `discAll()` runs before `safe_stop` is set). A safe restart cuts off calls that
  wait for their route, and BYEs that were not answered yet (`b2bua.py:546`).
- A helper process that dies takes its worker thread and its item along; a
  reopen request of a full log may be discarded; a sender of `Udp_server` that
  meets EPIPE ends without passing the shutdown marker on.
- A command connection that the client resets leaks its socket (`CLIManager.py:246`);
  commands without their argument raise.
- `customize()` writes the credit time of the authorisation into `crt_set`
  (`B2B/Route.py:217`): only the route's own time and the configured maximum limit
  a call, as `Limited` of `Routes` says.
- An exception out of `gotreply()` before its timer ends a registration for good: a
  Contact time that is no number (`SipRegistrationAgent.py:87`), a challenge that
  cannot be parsed (104), `rfail_cb` (117). A registrar that grants 0 seconds is
  asked again at once.
- A Content-Length counts bytes and is compared with characters
  (`SipTransactionManager.py:282`, `SipMsg.py:110`), and written as a number of
  characters (`SipMsg.py:159`): a UTF-8 body with its right length is refused or
  gets another line end, and is sent with a length that cuts it (`BodyKept`).
- Alive records take the wall clock for the monotonic one (`RadiusAccounting.py:122`).
- A chunk that has to be resampled is padded for its old length
  (`Rtp/OutputWorker.py:155`): the assertion in line 173 may fail.
- `update()` of an RTP end point changes its parameters one by one with setters that
  look up addresses, the first with the new family and the old target
  (`Rtp/EPoint.py:177`, `Rtp/Params.py:88`): if one raises, the parameters name a
  family the channel does not have, and no later update with the same family puts
  it right. A `set_target()` that raises (line 129) leaves the new channel open, a
  `join()` that finds its channel closed by the processor
  (`Rtp/OutputWorker.py:116`) makes `shutdown()` keep the channel and the server.
- A name that holds both `<` and a quotation mark is cut (`SipAddress.py:100`); a
  user name with `;` is read back as user parameters (with the same text);
  `getCopy()` of a URL forgets `sips`. A URL with an empty host and an empty
  port (`sip::`) is accepted and written as one that is not (`UrlSettles`).
- The addresses of a list keep the space behind the comma (`SipAddressHF.py:49`):
  from the second on, one without brackets cannot be read, and a quoted name is
  read with its quotation marks and written with two pairs. A bracket or a
  quotation mark in a name keeps the list together. `Supported` is written as `k`
  in the compact form (`SipSupported.py:57`) and not known by that name.
- A `Warning` that nobody has read is copied as `None` (`SipWarning.py:63`), a
  `Replaces` without a tag is written with the tag `None` (`SipReplaces.py:69`), a
  body that nobody has parsed is copied as SDP whatever its type
  (`MsgBody.py:82`), and the parts of a body lose their other header fields; one
  without a type is written with the type `None` (`MultipartMixBody.py:74`).
- A command that is cancelled after the worker has asked `is_cancelled()` is run,
  and its caller called back (`External_command.py:67`, 142).
- `verify()` raises on an algorithm that is not known; a comma in a quoted
  parameter of a credential splits it.

## 4. The proofs

Most theorems say `Spec => []P`. `LoopSleepsHalfLive` is an action property,
`CancelledIsNotStarted` says of every later state what a cancellation now means
(`[](P => []Q)`), `QueueKept` is a refinement
(`Spec => InOrder`, where `InOrder` is the specification of `CommandQueue` under the
mapping of `RtppSession`), and `GivenInTurn` is about operators only. They assume
nothing but the named `ASSUME` of each module:

- `ClientAssumption`: the classes of responses are disjoint;
- `BoundsAssumption` (`Workers`): pools are finite, and the log has one thread, as
  `SipLogger` starts one `AsyncLogger`;
- `CommandsAssumption` (`CommandLine`): the commands are those of `recvCommand()`;
- `NamesAssumption` (`RtppSession`): names of bodies and of prompts differ;
- `CallMapAssumption` (`CallMap`): the timers of calls are finitely many, and none of
  them is the collector's or the stop's; the bounds on time are positive;
- `RtppClientAssumption`: the intervals are positive, and a proxy that was given up is
  checked again (60 s) later than a heartbeat and its retransmissions can last (1 s and
  10 s), as the constants of `client.py` and `Client/udp.py` have it; the names of
  commands are distinct;
- `DialogAssumption`: the words for "no body" and "a body on hold" are not bodies;
- `RtpAssumption`, `RegAssumption`, `RadAssumption`: what `update()` is given names a
  family its target has an address of; packet times, sizes of chunks and rates are positive, clocks, counters and the life of a nonce are natural numbers, and
  a list of qop values is a list of strings;
- the others: bounds are natural numbers, `Billed` is a set of routes.

| Module | Theorems | The invariant that makes them inductive |
|---|---|---|
| `Clients_proofs` | `TypeOK`, `NoStrayTimer`, `CancelExactlyOnce`, `FinalOnce`, `AckBeforeTold`, `AckReplayed`, and `ToldOnce`, `KeptDespiteRaise` from them | which timer can run in which state; the stages of a cancellation; before any exception: a live transaction has not reported, and the ACK of a reported answer is in the cache generation its age calls for |
| the same | `ClientSound` of `RtppClient` (`AnsweredOnce`, `NoStrayRetransmit`, `OneWatch`) | `Accounts`, stated of a record of the state and of the commands a handler still has to send, so that it holds between two calls of one handler too: the caller is owed what is in flight or about to be sent (`Owed`); what is watching the proxy is one version check, one round of capability queries or one heartbeat, in flight or as a timer (`Chains`); and a heartbeat in flight is over before the version check that may bring the proxy back (`Timely`): without the last one two chains could start |
| the same | `RegistrationSound` (`RegTypeOK`, `NonceMeans`, `CredentialsJudged`, `OneChain`, `NoHammering`) | one REGISTER is on the way or one timer runs or neither (`RegChain`); every Authorization the agent has or has sent is none, or was computed from its password for a nonce made at some earlier time for the algorithm it names (`Credentials`), and is read by the registrar as it was written (`WireKept`, from lemmas on the last parameter of a name); a nonce is its time with one bit below it (`NonceFacts`); a burst is at most one longer than the attempts of `atries` |
| the same | `RecordsAreSound` (`StopIsLast`, `ChargedTime` of `RadiusRecords`, part of `BillingSound`) | `drec` is set exactly when the leg is over and its record made, the timer of Alive runs only while the leg is connected, a leg that is set up or has no record has sent nothing, and each record says what `RecordOK` says of its place |
| `Invites_proofs` | `TypeOK`, `NoStrayTimer`, `OneTransaction`, `ConsistentOutcome`, `AnswerAccepted` | what the key in `tserver` says of state, timers and callbacks; what the UA was told; only the last transaction is found by its branch; an answer is in the generation its age calls for |
| the same | `UpdatesPaired`, `EndHeard`, `SdpAgree` of `Dialog` | `DialogInv`. In every environment: a leg that has ended has been told or tells, keep alives run in Connected only, and what is left in a queue is left by a leg that is stuck (`LegOK`). Where the far ends and the proxy are `Benign`, in addition `Paired`: both legs have ended or neither; and the question of one far end, or the answer to it, is in exactly one place: at the RTP proxy, with the other leg, or with the leg that waits (`Exchange`; the roles of a body at the proxy are `askA`, `answerA`, `askO`, `answerO` and `ring`), where it is the body of that leg. Handlers are proved as operators on the record of both legs, one lemma each, and an action follows its chain of calls |
| `UaEvents_proofs` | `GivenInTurn` | none: what is said of `GivenAll` is that an empty queue changes nothing and one more event is one more turn of `emitPendingEvents()`, so the closed form is the loop. The lemmas about `OnTheWay` (below) are for the legs |
| `UacCall_proofs` | `AnsweredIsEnded`, `SetupTimed`, `CreditEnforced`, and `LegGuarded` from them; `EndsLast` | timers of the last states run in those only; no timer before the call starts; in Ringing only the expire timer is left. For `EndsLast`: once an End is on its way everything else that still is (in the queue or at the RTP proxy) has a lower number, so that it will not pass (`OnTheWay`); a leg that is not over has no End on its way; before the call starts the queue is empty (`Unasked`) |
| `UasCall_proofs` | `AnswerTaken`, `SetupTimed`, `CreditEnforced`, and `LegGuarded` from them; `EndsLast` | a transaction exists from the INVITE on; only the last states have the timer that ends the leg. For `EndsLast` the same as above, and that a leg leaves nothing in its queue before it is dead |
| `CallController_proofs` | `TypeOK`, `NoOrphan`, `OneLegAtATime`, `RecordsSettled`, `InMapWhileAlive`, and `OneLiveLeg` | `cc.state` against both legs (`Phase`), which legs exist (`Placed`), that a replaced leg has ended and said so (`Superseded`), where a late answer comes from (`AnswersKnown`) |
| the same | `CallsKnown` (`MapIsExact`, `StopReachesAll`, `StopTimerKnown`, `RestartSpares`) and `SleepsHalfLive` of `CallMap` | the map is a sequence without repetitions of exactly the calls that go on (`ListOK`); a program that is stopping has no call left that could be disconnected, and while it runs a timer to cancel and tries left (`StopOK`); no timer in the heap is overdue, and `twasted` is at least the number of cancelled timers in the heap (`HeapOK`), so that it is never too small to start the sweep; a restart found no active call (`RestartOK`). As for the session, a callback is proved on the record of the state before the turn of the loop that runs it |
| `RtppSession_proofs` | `SessionSound` (`AnsweredOnce`, `DoneIsComplete`, `Released`); `QueueKept` | all of it about the line of commands taken and not answered: the client has the first of it and nothing else (`QueueOK`); a body that waits has an update in line for each section that is left (`BodyAt`), a prompt or recording exactly one command (`MediaAt`); until the session is deleted no index beyond `max_index` is open or in line to be opened, and from then on no command in line opens one, and a delete is in line for each that is open (`SessAt`). A handler is proved on the record of the state, call by call, before the action is |
| `Threads_proofs` | `PoolSound` (`OnePlace`, `NoLostWakeup`, `MarkerKept`); `CancelledNotStarted` | a thread that is not working has nothing in its hands (`EmptyHanded`); which steps each kind of pool can be in (`PoolKinds`); the four places of an item hold it once, stated without counting (`Placed`), from which the sum of cardinalities in `OnePlace` follows. For `CancelledNotStarted`: what a helper was given is neither queued nor about to be asked about (`RanSeen`), and once a cancelled command is with no worker that writes it, it never is again (`Barred`), because it is in one place and nothing is queued twice |
| the same | `CliSound` (`RepliesInOrder`, `Flushed`, `WriterAwake`) | commands are numbered in the order in which they wait for the main thread, behind all replies given out (`CommandsInOrder`); what was given to `send()` is on the wire, in the writer's hands or in its buffer (`OnTheWay`); one connection at a time; a pending close is not forgotten (`AskedIsFlushed`) |
| the same | `EndpointSound` of `RtpEndpoint` (`Accounted`, `WholePackets`, `OneStream`, `RefsExact`, `NothingLeft`, `Follows`, `StreamInOrder`) | `EndInv`: a worker that lives and a channel that is open have one owner, the end point, an update or a shutdown (`Owned`, `Opened`), so that of two threads that end something one finds nothing left to end; what has no owner is in `leaked` or `kept`; how much of the new parameters is in force at each step of `update()`, until something has raised (`Following`); references are counted (`Referred`, `Counted`); frames and bytes of every worker are balanced, including the chunk that `soundout()` has in hand (`Sounding`); the next number of the jitter buffer (`Streaming`) |

So the results hold for any set of responses, any number of transactions,
retransmissions, events, challenges and routes, for all times, for any number of
bodies, prompts, threads, work items, deaths of helpers, commands, calls in the map
and timers of calls, capabilities, updates of an end point, sounds and packets,
challenges and times. Three bounds are part of the model, not parameters of the
proofs: a body has at most two sections, each name of a call, body or item is used once, and a behaviour of
`CallMap` has calls or timers of calls, not both (`scene`).

The proofs shaped the model in a few places. `emitPendingEvents()` was a fold over
the queue, which the prover cannot unfold for a queue of any length; it is now
the set of places that pass (`Passed`, `GivenAll`), and `GivenInTurn` proves that
this is the loop. `discAll()` is in the same way the set of calls before the first
one that raises, and the timers of `EventDispatcher` are moved by named functions
(`Later`, `Swept`). While the restart was being proved `RestartSpares` turned out to
have left out a connected call that cannot be disconnected (`Stuck`), which
`getActiveCalls()` counts; it is in both now.

`send_commands` of `RtppClient` gives all cookies of a round of queries at once, and
`supportedAlgorithm` of `Digest` is the first place of a set, not a filtered sequence,
for the same reason.

Where a proof needs an induction over numbers it takes the least counterexample
(`LeastNat`), which is what the library's well-foundedness of the naturals gives
without an operator as a parameter. In this way the functions that are defined by
recursion on a number (the powers behind `getnretrans`, the sums `Total` and the loop
`Fill` of `RtpEndpoint`) are shown to satisfy their equations.

Only model-checked:

- liveness (`Concludes`, `EndsDead`, `Collected`, `UpdateSettled`, `BackOnline`,
  `Deleted`, `CliSettles`, `KeepsGoing`, `Stops` and `SyncAnswered` of `LoopServes`,
  `Settled` of `PoolSettles` ...): out of the prover's reach with the fairness it
  needs. The parts of `LoopServes` and `PoolSettles` that are not about liveness,
  `SleepsHalfLive` and `CancelledNotStarted`, are proved;
- the conversions: `MessagesSound`, `DescriptionsSound`, and of `BillingSound` what is
  not `RecordsSound`. Each says of an operator what it makes of every input of a
  bounded set; what it makes of every input at all takes an induction over the input,
  and `HeaderFields` and `RtppReplies` use recursive operators.

## 5. Not modelled, and the plan

Left out for good: the web interface (Flask pages; it also needs
`sippy.SIPRec`, which is not part of the repository), the sample applications,
tools and the simple B2BUA (`b2bua_simple.py`, a call controller with one route);
WebSocket and XMPP servers, which are an asyncio loop and a protocol of their
own; classes of header fields that only have a name of their own;
transforms of numbers by regular expressions; configuration files; codecs and
sound; the arithmetic of clocks and of the filter that smooths delays.

Next: `group_expires()` in `CallController`.
