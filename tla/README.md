# A verification project for metaRTC (wfrtc)

The repository is a fork of metaRTC 5: a WebRTC stack in C
(`libmetartccore5`), and on top of it an application layer in C++
(`libmetartc5`) with capture, encoders, publishers, players and peer-to-peer
sessions. It has no written documentation and no tests; what it promises is
said in the comments of the code, which the modules and `PROJECT.json` quote.

This directory holds TLA+ modules translated from the code, TLC configurations
that check them on small instances, and proofs that hold for every value of
the constants.

## 1. The system and its parts

| part | code | state | interacts with |
|---|---|---|---|
| session | `YangRtcConnection.c` | `state`, `isSendDtls`, `startRecv` | everything below |
| receiving thread | `YangRtcUdp.c` | socket, `isStart`, `isLoop` | runs each datagram through `yang_rtcconn_receive` |
| timers | `YangCTimer.c` | one thread each: STUN and reports (1 s), TWCC (100 ms) | send through the same socket |
| DTLS | `YangRtcDtls.c` | OpenSSL object, `state`, `handshake_done`, ARQ thread | gives keys to SRTP |
| SRTP | `YangSRtp.c` | one context for each direction | application thread, receiving thread, timers |
| publishing side | `YangPushH264.c`, `YangPushStream.c`, `YangPush.c` | sequence numbers, ring of packet buffers, retransmission queue | application thread writes, receiving thread resends |
| playing side | `YangPlayStream.c`, `YangPlayTrack*.c` | loss tracker, cache of packets, current frame | receiving thread; frames go to a frame buffer |
| NACK | `YangRtpRecvNack.c`, `YangReceiveNackBuffer.c`, `YangRtcpNack.c` | list of missing numbers, window | asks the peer's publishing side |
| TWCC | `YangRtcpTWCC.c`, `YangRtcTwcc.c` | sorted numbers, time stamps | receiving thread fills, timer sends |
| frame buffers | `YangMediaBuffer.cpp` and the classes derived from it | ring, two indexes, a count | one thread or several put, one gets |
| synchronisation | `YangSynBuffer.cpp` | audio and video clocks | the renderer polls, reads the frame buffers and resets them |
| peer-to-peer | `YangP2pServer.c`, `YangP2pRtc.cpp`, `YangP2pMessageHandle.cpp` | vector of sessions, list of those to remove, `m_mutex` | HTTP threads, publishing loop, timer, alerts, messages |
| system messages | `YangSysMessageHandle.cpp` | queue, `m_waitState`, condition variable | every part posts, one thread handles |
| signalling, SDP, ICE, RTMP, devices, files | `yangsdp`, `yangice`, `yangsrs`, `yangzlm`, `yangrtmp`, ... | per call | |

What is hard here: four kinds of threads work on one session (application,
receiving, timers, ARQ) almost without locks; packets are lost, repeated and
reordered; sequence numbers wrap; and lists, rings and caches are of fixed
size. `PROJECT.json` lists the places under `hazards`, each with the
properties that watch it or a note.

What makes the parts correct, in one line each:

- loss tracker: no loss is forgotten, nothing is asked for forever, the list is bounded and can be searched;
- NACK packets: a packet asks for what is wanted, for all of it within its reach but for what the encoder skips, and is read exactly;
- publishing: a NACK is answered with the packet it means;
- H.264: a frame handed to the decoder is one frame, no NAL unit lacks a fragment, and a key frame always recovers;
- frame buffers: a bounded queue, whole frames, in order;
- session: both ends get connected, and media goes out only under keys;
- end of a session: destroying ends, nothing runs afterwards, nothing freed is used;
- peers: a peer that asks to go or falls silent is erased, and the count of players is right;
- messages: what is posted is handled, and the loop stops when told;
- drawing: frames come out in order, none twice, and one that waits is drawn or dropped as late.

Several of these do not hold as they stand. The properties then say exactly
what does hold, and section 5 what does not.

## 2. Modules

`SeqNum` is the arithmetic on 16-bit sequence numbers that the RTP modules
share, with the modulus `2 * Half` as a parameter. Each component has its own
module, an `MC` module with values for its constants where these are sets, and
where something is proved a `Proofs` module; `SessionLifeProofs` holds also the
proofs about `SysMessage`, and `P2pPeersProofs` those about `RtcHandshake`, the session of
one peer.

| module | what it models | proofs |
|---|---|---|
| `RecvNack` | `yang_playtrack_on_nack` and all it calls, for one track: `OnListed`, `OnFirst`, `OnForward`, `OnLate` and `OnOld` are the branches a packet takes, each followed in the same step by the check of the list (`SendNacks`) as in the code; `UpdateRtt` is an XR report; `Tick` is time | yes |
| `RtcpNack` | the sorted array, the encoder and the decoder of a NACK packet; `SendForeign` is a packet of another implementation | yes |
| `PublishVideo` | the application's thread, one action per step at which the other thread can come in between (`EncodeVideo`, `CacheNack`, `Protect`, `SendData`), and the receiving thread answering a NACK (`OnRecvNack`, `ReProtect`, `SendNackPacket`) | yes |
| `H264Track` | `yang_playtrackH264_on_rtp` with the recursive delivery of frames, fed by a sender that cuts frames as `YangPushH264.c` does; a call of `packet_video` by itself is a `Turn` | yes |
| `FrameQueue` | abstract: a bounded queue of frames, weaker by one frame for each further producer | |
| `MediaBuffer` | `putFrame`, `getFrame` and `getFrameRef`, split at the unlocked test, the lock and the unlock; implements `FrameQueue` | yes |
| `RtcHandshake` | two sessions from the first STUN request to media, with the ARQ thread and the timer | yes |
| `SessionLife` | one session from `startRtc` to the end of `yang_destroy_rtcConnection`: the application's thread, the receiving thread, the two timers and the ARQ thread, split at the two flags (`isStart`, `isLoop`) and at every part that destroying frees | yes |
| `SysMessage` | `YangSysMessageHandle`: the loop, split at its tests, its mark and its wait; posting and stopping, split at the unlocked look at `m_waitState` and the signal | yes |
| `P2pPeers` | `m_pushs`, `m_removeList`, `m_mutex` and `m_playCount` of `YangP2pRtc` under the HTTP thread (`AddPeer`, `ListPeer`), the message handler (`ConnectPeer`, `DisconnectPeer`), the timer (`CheckAlive`), DTLS alerts (`Alert`) and the publishing thread (`LockRemoved`, `EraseNext`, `Erase`) | yes |
| `SynBuffer` | `getVideoRef` of `YangSynBuffer` with its clock, and the reset of the frame buffer while the decoder puts | yes |

The modules that model threads of the same session or process meet at named
places: `SessionLife` begins and ends the session that `RtcHandshake`
connects; the loop of `SysMessage` is `m_lock` and `handling` in `P2pPeers`, which
models what handling and posting wait for; `SynBuffer` takes `MediaBuffer`
apart again for the one caller that breaks its rule that a buffer is reset
at rest; and a NACK in `RtcpNack` is what `RecvNack` asks for and what
`PublishVideo` answers.

### How state is represented

- A sorted array of NACK records is a function from sequence numbers to
  records. The array is ascending in `yang_rtp_seq_distance`, which orders
  everything within half the sequence space (`ListedInWindow` says it stays
  there, which the runs check), so its order is a function of its content. The order matters, as
  the request loop stops early and skips elements: `Position` and `Visited`
  say which ones it looks at.
- Clocks are ages that stop growing at the largest value the code compares
  them with. The clock of `SynBuffer` is the time since it was set.
- A packet in a buffer is a number and whether it is ciphered. A NAL unit
  is how it was cut and which ends of it a packet carries.
- The 16-bit mask of a NACK chunk is the set of its one bits.
- A peer is its uid. A flag that several threads have is the set of those
  that have it (`isStart`, `isLoop`, `connected`, `alive`).
- A use of memory that is freed is undefined; `SessionLife` notes it in
  `stale` and goes on as if the memory still held its last values. A record of
  the retransmission queue that is freed while the other thread has it in hand
  may hold anything (`CacheNack`).
- An operation on a C++ vector is one step in `P2pPeers` and `SysMessage`: two at
  once, which nothing in the code rules out, are beyond the model.
- What OpenSSL does is taken from how the code uses it: four flights, an
  answer to a repeated flight, and the repetition of its last flight on a
  timeout. The network, OpenSSL and the condition variable (which may wake up
  for no reason) are marked external in the map.

History variables are there for properties and bounds, and no variable of the
code depends on them: `missing`, `settled`, `lag` and `advance` in `RecvNack`; `wanted` and `own` in
`RtcpNack`; `sent`, `original` and the `packet` and `freed` of `nacked` and `held` in
`PublishVideo`; `sent`, `newest`, `came`, `repeated` and `expect` in `H264Track`; `lost` and `early` in
`RtcHandshake`; `late` and `stale` in `SessionLife`; `told` and `missed` in `SysMessage`; `last` and
`torn` in `SynBuffer`.

## 3. Runs

| run | expected | what it shows |
|---|---|---|
| `recvnack` | pass | no loss is forgotten or given up too early (`NoLossForgotten`, `GiveUpOnlyExpired`), every request ends (`EveryNackEnds`), and the list stays within half the space although the window does not (`ListedInWindow`) |
| `rtcpnack` | pass | a NACK packet asks for all that is wanted within its reach but for the two kinds of numbers the encoder skips (`AskedWithinReach`), fits its buffer (`PacketFits`) and is read once, in order (`ReadExactly`) |
| `publish` | pass | without DTLS, what answers a NACK is the packet first sent under that number while the ring has not gone round (`QueueIntact`, `ResentAsSent`); a frame's fragments are whole |
| `publish_dtls` | violation | `ResentAsSent`: with DTLS, resending ciphers a packet a second time, which undoes the first |
| `h264track` | pass | in the first round of the cache, frames of one frame each (`OneFrameAtATime`) and no NAL unit without one of its fragments (`WholeNalUnits`); recovery by a key frame always (`InOrderFlows`) |
| `h264track_mixed` | violation | `NeverMixed`: with DTLS, a packet that is late by about the cache's length completes a frame of packets of two frames |
| `mediabuffer` | pass | refinement of `FrameQueue`, payloads of `getFrameRef`, draining |
| `rtchandshake` | pass | completion and keys before media |
| `sessionlife` | pass | destroying ends but for one known wait (`DestroyEnds`), leaves nothing running (`NoOrphan`), and freed parts are used in the known ways only (`StaleOnlyKnown`) |
| `sysmessage` | pass | only messages whose poster looked too early are slept over (`NoneSleptOver`), all others are handled; the loop stops when told, unless the stop was slept over or came before the loop began (`Served`) |
| `p2ppeers` | pass | removals end but for three named deadlocks (`RemovalEnds`), peers go (`PeersGo`), what `m_playCount` counts (`PlayCount`) |
| `synbuffer` | pass | frames in order and none twice unless the reset cuts through a put (`NextInOrder`), and a waiting frame is drawn or dropped as late whatever the stamps (`KeepsDrawing`) |

### Bounds, and why they are enough

- **`recvnack`**: 20 sequence numbers, a list of fewer than 3, one request for
  a packet before it expires. Packets jump up to 2 ahead and come up to 2 late,
  so that gaps, late packets, duplicates, a full list and wraps of the space all
  happen in every order. `JumpAhead`, `LateBy`, and `MaxAdvance` (3 numbers in a tick)
  bound the stream: in the few ticks a request lives here it
  does not come half the space, as 65536 numbers are far from half used up in the second a
  request lives in the code. `MaxLag` bounds how far `begin` falls behind `end`: 15
  numbers, which is beyond half the space. The window moves only when a number is given
  up, and a packet that comes again then seems older than `begin`: the tracker
  lists everything up to `begin`, finds the list full and forgets everything. Beyond
  `MaxLag`, when `begin` is within a list's length of a whole circle behind, it would list
  numbers that were not sent yet; that takes a whole circle without one packet given
  up, and stays out. `MaxSilence` lets time pass between packets up to the point where
  everything expires.
- **`rtcpnack`**: 16 numbers, masks of 3 bits, 5 numbers in a packet: enough
  for three chunks and a wrap. Foreign packets have up to 2 chunks that may
  overlap.
- **`publish`**: a queue of 5 over a ring of 7 buffers, 8 numbers and 13
  packets, so that the queue, the ring and the numbers all wrap, and, as in the code, the
  capacity does not divide the sequence space. How many packets are sent while
  the receiving thread answers one is not bounded. Deadlock is not checked as
  the sender stops at its bound.
- **`h264track`**: 8 packets over 12 numbers and a cache of 6, so that slots are used
  again; frames of up to 4 packets, a fragment in the middle among them. A packet
  arrives, any number of times, while it is one of the last 3: `HaveDtls` is
  false, which allows all that a build with DTLS does and repeated packets besides.
- **`h264track_mixed`**: `HaveDtls` is true, as in the default build, and no packet comes
  twice. 7 packets over 10 numbers, a cache of 5, and packets that are late by
  up to 3: in the code that is lateness by about 1024 packets, a second of
  video, during which a lost packet is asked for again and again.
- **`mediabuffer`**: two producers, three slots, two frames. More frames add
  nothing, as a frame is only ever copied.
- **`rtchandshake`**: two packets lost and one repetition too early. The ARQ
  thread ends after 3 repetitions here; in the code after 24, or after `max_loop` turns
  of 50 to 100 ms, in which OpenSSL's timer, which doubles, expires some five
  times: what matters is that it repeats more often than packets are lost. That it also ends
  when OpenSSL or the socket returns an error (`YangRtcDtls.c:172-174`, 183,
  192) is left out: a handshake may then stay incomplete.
- **`sessionlife`**: one session, its two timers, and a second thread of the
  100 ms timer, which `yang_timer_start` may start; everything else is finite
  as it stands. Deadlock is not checked as a session may be left alone.
- **`sysmessage`**: three posters, one of which stops the loop, with two
  messages each: two that look too early and one that does not.
- **`p2ppeers`**: two uids, servers or clients, one connecting and one
  disconnecting message, one HTTP thread at a time. Two peers are enough for a walk
  during which the list shrinks, a peer asked to go twice, and a client and a server. What
  holds for every number of peers is proved.
- **`synbuffer`**: three slots, four frames, time stamps out of `{0, 1, 9}` in any order, so that frames are in
  time, early, late and absurd; one late or early frame resets the clock, six in the code.

### Fairness

- `RecvNack`: time passes or a packet comes, as long as either may. The code
  looks at its list only when a packet comes, so nothing expires on a stream
  that stopped; `MaxSilence` says that it does not stop.
- `MediaBuffer`: a thread inside a call leaves it; the consumer polls
  (the loops of encoders and publishers do, every 2 or 20 ms); the mutex is
  strongly fair. Producers need not put.
- `RtcHandshake`: timers and threads run; a packet that is sent again and again is
  received (strong fairness), as at most `MaxLost` are lost.
- `SessionLife`: the scheduler runs every thread, and the application's once it
  has begun to destroy. Packets come or do not.
- `SysMessage`: the loop runs, a poster that posted looks, and one that is to
  signal gets the lock in the end (strong fairness: the loop frees the lock
  again and again when it waits). Nobody need post.
- `P2pPeers`: every thread runs, the camera and the microphone keep the
  publishing loop going, the timer expires again and again. Packets, alerts,
  silence and the user's wishes come or do not.
- `SynBuffer`: the renderer polls and the decoder finishes its calls. The
  clock need not run: `KeepsDrawing` does not rest on it.

## 4. Proofs

Everything here holds for every value of the constants that the named
assumptions of the modules allow (`HalfAssumption`, `NackAssumption`,
`CodecAssumption`, `TrackAssumption`, `BufferAssumption`, `HandshakeAssumption`,
`PublishAssumption`, `PosterAssumption`, `PeersAssumption`, `SynAssumption`; TLC
evaluates them in the runs).

**`RecvNackProofs`.** For every size of the space, of the list, every
interval and every set of round-trip times, and however far `begin` falls
behind `end`. `NoLossForgotten` is inductive only with two facts beside it in
`IInv`: the types, and `QueueBounded`, which says that the list is empty while the
window is not set. Each branch lists everything between the window and the packet, or takes the
one packet off; the loop takes off only what expired. Proved from it: `TypeOK`,
`NoLossForgotten`, `QueueBounded`, and the action property
`GiveUpOnlyExpired`. `SeqNum` avoids the modulus operator so that the provers
meet only linear arithmetic.

**`PublishVideoProofs`.** `QueueIntact` speaks of the queue, the ring of
buffers and the numbers, three rings of different sizes. The invariant gives
each its age: the packet under a number is the one sent as many packets ago as
the number is behind the newest (`Numbered`), the packet in a buffer likewise
(`Written`), and the two ages of a slot agree until the ring has gone round
(`Paired`). A number's slot is overwritten only by a number with the same
remainder; `SharedSlot` says how far away that is, on a line (a whole capacity) and
across the wrap (the remainder of the sequence space), which gives `Kept`: 536
packets for 65536 numbers and 1000 slots. Video and audio are two instances.
`Typing` adds what the receiving thread has in hand (`UdpRanges`). `Resent`
proves `ResentAsSent` for sessions without DTLS and a ring no longer than the
sequence space (`PlainSession`; with DTLS it is false, as `publish_dtls`
shows): what the peer asked for stays the packet under its number or is too
old (`Means`), the buffer in hand ages as that packet does (`Holds`), and a
record freed in the thread's hand is at least `Kept` packets old, which is
`SharedSlot` again. `WholeWhenSent` proves `FragmentsWhole`, for every size of frame and
every largest payload. The bytes of a frame are a fold of the library, which is
recursive: the proof exhibits a function over the sets of fragments that solves its
equation (`FoldTotals`) and takes the least set on which it would fail, so that the sum of
the fragments is the sum of their lengths, and these are what the loop over the
payload cuts (`Cut`).

**`RtcpNackProofs`.** For every list and every packet, whatever its length. The library's
induction cannot be instantiated here, so the module first derives its own from the
well-foundedness of the naturals, over sets of numbers (`Induction`), then that a loop of so
many turns has a run (`Runs`), which makes a recursive function the one its equation
says, and that what each turn keeps holds at its end (`LoopInvariant`). With these: the
binary search of `yang_insert_uint16_array` ends and finds the place
(`IndexOfFinds`, `PutInPlace`), reading a packet collects its numbers once and in
order (`DecodeSorts`), and packing a list writes every number within the reach of a
mask but for the one that closes a chunk and those behind a wrap (`PackWrites`,
`EncodeReaches`). The inductive invariant `IInv` says that what is
asked for is in order, and that a packet on the wire stays within half the sequence
space of its oldest number, where the order of numbers means something.

**`H264TrackProofs`.** For every size of the cache that divides the sequence space, of
which it takes at most half. The module uses the lemmas on loops of `RtcpNackProofs`:
`packet_video` calling itself is the recursive function `Turns`, and `ComingIsNext` with
`ComingKeeps` reduces what one packet does to what one search and one delivery do. A few facts
about remainders (`OneRemainder`, `SlotOfNumber`) say that a slot is known by any number with the
same remainder. Proved first: the types (`TrackTyping`).

`FramesUnmixed` proves `OneFrameAtATime`, with `Orderly` as its invariant. As long as no packet
came twice and no more were sent than there are slots, what lies in a slot is the packet sent
under its number (`InPlace`), everything from the header up to the lost number has come
(`Settled`), and of the key frame that is awaited something is still missing behind the header
(`KeyAhead`). The two conditions of the property (`FirstRound`) are used, not decoration: in the loop of
`find_next_lost_sn` a search ends before the first slot is due again only because of them
(`Turned`), and the run `h264track_mixed` shows what happens without.

`UnitsWhole` proves `WholeNalUnits` under the same conditions. `check_frame_complete` counts first
and last fragments, and equal counts alone do not say that a NAL unit is whole. That they do here
rests on what the sender can have sent (`Stream`: fragments follow each other, at most four
packets to a frame in this model). A delivered frame is made of consecutive packets of one frame,
up to the sender's last one; so only its beginning may be missing, and the counts are equal exactly
when the first packet delivered does not continue a NAL unit (`EndsMeet`, `EndsDiffer`).
`Proper` says this of the frames delivered, and `ProperStays` that what is sent later changes nothing.

`KeyFrameRecovers` proves `InOrderFlows`, with `InOrder`, and needs neither condition: the cache
may hold anything when a key frame starts. It clears the cache, and from then on the cache holds
exactly the packets of the frame that has begun (`Awaits`). These differ in their slots all
round the sequence space, as a frame has at most four packets in this model (`Apart`), so the
search stops where the sender does, at the last packet of the frame or before the next one.

**`MediaBufferProofs`.** For any number of producers and slots. `TypeOK`
contains that `m_size`, an unsigned number, never goes below zero; it needs
`FrameForConsumer`: what the consumer's unlocked test saw stays, as only the
consumer counts down. `OverfillBounded` is not inductive: the producers that
passed the test and have not counted yet must be counted with `m_size`
(`RoomForInside`). `Refines` proves that the ring implements `FrameQueue`: besides `IInv`
it needs `RingClosed` (the two indexes and the count agree), and a handful of
facts about remainders, proved from the definition of division. A put is a `Put` or, in a full
ring, an `Overrun` at the moment its thread gets the lock; a take is a `Get`;
all other steps stutter. `PayloadIntact` follows the slot that `getFrameRef`
handed out (`RefBehind`): it is the slot before `m_getIndex`, which
the producers reach last.

**`SessionLifeProofs`.** The flags of a loop that was not late say where its
thread is (`FlagsTrue`), so a stop that has returned has seen it end
(`JoinedLeft`); parts are freed after the joins that precede them in
`yang_destroy_rtcConnection` (`FreedLate`). From these, that only the known
uses of freed parts exist and that nothing runs at the end.

The module ends with the loop of `SysMessage`, which has no state in common with a
session (`MsgSpec`, `MsgTypeOK`). For any set of posters: the lock is the loop's
exactly where the code says so (`LockHeld`), and whatever lies in the queue when the
loop goes to sleep has a poster on its way to signal, or one that looked too
early (`NothingLost`); a stop may besides have come before the loop set `m_loop`.

**`P2pPeersProofs`.** For any number of peers: uids are given out once
(`Fresh`), no peer is listed twice (`Distinct`), and the peer that is being destroyed stays
listed (`StillListed`), as only one thread erases. So adding and erasing change the
sets that `PlayCount` counts by one.

The module ends with `RtcHandshake` (`HandshakeSpec`). For any bounds on losses and repetitions. A media
packet is in the network only if its sender saw `ClientDone`, which comes
after the keys (`KeysInOrder`); that the server has them too when the client
sends needs `ServerFirst`: the client is done only after a flight the server
sent when it was done itself.

**`SynBufferProofs`.** For every size of ring and every set of stamps. The frames between
the two indexes are consecutive (`Orderly`) as long as no reset fell into the copying
of a frame, wherever else it fell; the frame taken next is then the one after the last, and never the last one again.

Model-checked only:

- liveness under fairness (`EveryNackEnds`, `FullDrains`,
  `HandshakeCompletes`, `DestroyEnds`, `Served`, `RemovalEnds`, `PeersGo`,
  `KeepsDrawing`), which the prover does not do;
- `ListedInWindow`: a proof would have to bound the span of the list by the time its
  elements live, across ticks, resets and elements the loop skips.

Every other invariant and safety property of a step that a passing run checks is
stated by a theorem.

## 5. What the code does otherwise

Two runs end in a violation of what a comment says; `PROJECT.json` quotes the
comments under `findings`:

- resending a packet ciphers it again, which undoes it (`publish_dtls`);
- a packet that is late by about the length of the cache, 1024 packets, finds newer packets in the slots of its frame,
  and packets of two frames are delivered as one (`h264track_mixed`). In a build without DTLS a repeated packet is enough.

The rest is in the models, where the properties say what is true in spite of
it, but contradicts no comment:

- `begin` of the loss tracker's window does not move while nothing is given up,
  so that it goes stale on a stream without losses. Half the sequence space later a packet that comes
  again seems to be before it, the range up to `begin` fills the list, and the tracker forgets
  what it missed.
- The encoder of NACK packets leaves out the number that closes a chunk; and as it
  takes an `int` difference, all the rest of a list that wraps: of 65535, 0, 1 it asks for 65535 only. Both
  are asked for the next time, when the numbers before them are gone or asked for in another chunk.
- A late key packet clears a cache of newer packets (`NewKeyFrame`).
- A frame whose size less one is a multiple of 1300 has no fragments and is not
  sent (`NumOfPacket`).
- After a wrap of the sequence numbers the slots of the retransmission queue
  are not overwritten in turn: a slot can be lost after 536 packets, and another can
  last for 1536, longer than the ring of 1400 buffers. A NACK for such an old
  number is answered with a wrong packet (the condition on the ring in
  `ResentAsSent`).
- A session counts as connected with its first DTLS packet that does not
  change its state (`Connects`).
- Destroying a session waits forever for a loop that sets its flag after the
  stop cleared it (`Overrun`). A loop that is stopped before it has
  started is not waited for, runs on, and uses what was freed (`late`). And six
  uses of freed parts need no such bad luck (`Known`): a packet in hand while the timers, the media sides,
  the configuration and the UDP object go, and the ARQ thread, which nobody joins, with the UDP object and the
  DTLS context. The timers are among them because the
  receiving thread tests the session's pointer to a timer (`YangRtcConnection.c:235`, 243) and starts the timer
  in steps between which the application's thread stops and frees it.
- A message or a stop is slept over when its poster looked at `m_waitState`
  between the loop's last look at the queue and its mark (`missed`); it is found with the
  next one that is signalled.
- A stop of the message loop that comes before the loop has set `m_loop` is overwritten
  (`early stop`). The loop then never ends, and the destructor, which stops it once and waits for
  `m_isStart` (`YangSysMessageHandle.cpp:40-44`), waits forever.
- Three deadlocks of a peer-to-peer process (`Stuck`): erasing a connected
  peer sends an alert whose callback takes the mutex again (`SelfAlert`); it joins a thread that
  waits for the mutex in such a callback (`UdpWaits`); it posts under the mutex
  while the message loop's handler waits for the mutex (`Inversion`).
- `m_playCount` goes below zero when clients are erased.
- A reset of the frame buffer by the renderer that cuts through a put leaves
  indexes and count in disagreement, and old frames are drawn again (`torn`).

## 6. What is not modelled

- **Within modelled parts.** The audio clock (`getAudioRef` and its recursion).
  `resetIndex` in `YangP2pRtc`, which has the same race as the one in
  `SynBuffer`. Sender reports and reports of a receiver, other than their effect on the
  NACK interval. The fields of STUN messages, the certificate context
  of `YangRtcContext.c`. `YangP2pMessageHandle`'s destructor, which deletes the
  handler before its loop is stopped. The error returns of the ARQ thread. Peers that never connect, which nothing removes: `PeersGo`
  speaks of connected ones.
- **TWCC.** `yang_encode_rtcpTWCC` builds feedback from a chunk it may not have
  initialised (`YangRtcpTWCC.c:259`), and no decoder is ever called: there is
  no second party whose behaviour could be right or wrong.
- **RTCP dispatch, the receiving demultiplexer.** Stateless but for the parts above and SRTP's check for
  repeated packets, which is `Replayed` in `H264Track`.
- **`YangP2pServer`.** Its HTTP parser reads one request; its one hazard, a
  descriptor shared by the threads, is listed.
- **H.265, the data channel, RTMP.** H.265 repeats H.264 with other headers; the data
  channel is handed to a library; RTMP's chunks are a codec over TCP.
- **Text and byte formats, devices, files, codecs, vendored libraries.** SDP,
  STUN, AMF and RTP headers are sequential code over strings and bytes, the
  rest is input and output. Most of the repository's lines are of this
  kind: FFmpeg, OpenSSL and codec headers, and drivers for windows and cards.
- **Library objects used by several threads at once.** Corruption of OpenSSL
  and libsrtp objects is beyond what their callers show.

## 7. Plan

What would be worth adding next:

1. `NackLoop`, composing `PublishVideo`, `RtcpNack` and `RecvNack`: a loss that is
   asked for in time arrives, although chunks leave numbers out.
2. The audio clock beside the video clock in `SynBuffer`.
3. RTCP dispatch with its partial failures (`YangRtcConnection.c:207`), and the
   sorted numbers of `YangRtcTwcc.c` between the receiving thread and the timer.
4. Proofs: `KeyFrameRecovers` for frames of any number of packets that fit into the
   cache, once the model's frames are a parameter.
