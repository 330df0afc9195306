----------------------------- MODULE Transport -----------------------------
(***************************************************************************)
(* The socket.io / AMQP relay of src/cmd/petri/server/index.ts, lines      *)
(* 42-62.  Each socket connection runs the async "connection" handler:     *)
(* it registers an AMQP consumer with listen(handleRecv), awaits the       *)
(* module-level publisher promise, then emits "confirmation" and registers *)
(* socket.on("event").  A client command arriving on the socket is parsed  *)
(* with CommandSchema and published under routingKey(deviceID, command);   *)
(* a device message reaching a consumer is split on "." into deviceID and  *)
(* event and emitted to that consumer's socket.                            *)
(*                                                                         *)
(* listen, publisher and CommandSchema live in rabbitmq.listener,          *)
(* amqp.publisher and command, which are not in the repository; they are   *)
(* modelled from the spec's transport interface (section 6): a consumer    *)
(* gets every device message (its own queue bound to the exchange), the   *)
(* publisher is a promise that resolves once, a command is                 *)
(* {deviceID, command, data?} and anything else fails to parse.  Devices   *)
(* key their messages "<deviceID>.<lowercased, underscored event>".        *)
(*                                                                         *)
(* Strings are sequences of characters; socket.io delivers the frames of  *)
(* an open socket in order and drops those of a closed one.               *)
(*                                                                         *)
(* The "event" listener is async and nothing catches what parse throws:   *)
(* the rejection is unhandled.  The repository pins no Node version;      *)
(* Node 14 logs an unhandled rejection, Node 15 and later exit the        *)
(* process.  Both outcomes are modelled; after an exit the process may be *)
(* restarted (MaxRestarts times), with a new publisher promise and no     *)
(* consumers, and clients connect again on new sockets.                   *)
(***************************************************************************)
EXTENDS Naturals, Sequences, SequencesExt

CONSTANTS
  Sockets,        \* socket ids, one per connection
  Msgs,           \* ids of the command frames clients emit
  DeviceIds,      \* device ids (strings)
  CommandNames,   \* command names clients send (strings)
  EventNames,     \* event names devices publish (strings)
  Malformed,      \* a frame CommandSchema.parse rejects
  Whitespace,     \* the characters /\s/ matches
  LowerOf,        \* LowerOf[ch]: ch.toLowerCase()
  MaxDeviceMsgs,  \* model bound: messages devices publish
  MaxRestarts     \* model bound: restarts of the server process

VARIABLES
  conn,           \* conn[s]: "none", "awaiting" (at await publisher), "open", "closed"
  listening,      \* sockets whose socket.on("event") is registered
  confirmed,      \* sockets whose client has received "confirmation"
  publisherReady, \* the publisher promise has resolved
  consumers,      \* sockets whose handleRecv listen() registered
  inbox,          \* inbox[s]: command frames in flight from s's client
  sent,           \* sent[m]: [sock, dev, cmd, afterConfirm] of frame m
  published,      \* [msg, key] of every channel.publish
  queue,          \* queue[s]: device messages [src, key] waiting for s's consumer
  devMsgs,        \* device messages published so far
  notified,       \* notified[s]: the [src, device, event] emitted to s
  up,             \* the server process is running
  restarts        \* restarts of the server process so far

vars == << conn, listening, confirmed, publisherReady, consumers, inbox, sent,
           published, queue, devMsgs, notified, up, restarts >>

Open(s) == conn[s] \in {"awaiting", "open"}

(***************************************************************************)
(* The string conversions.                                                 *)
(***************************************************************************)
\* name.replace(/\s/g, "_").toLowerCase()
Normalize(name) ==
  [i \in DOMAIN name |-> IF name[i] \in Whitespace THEN "_" ELSE LowerOf[name[i]]]

\* routingKey(id, name) == id + "." + name normalized
RoutingKey(id, name) == id \o << "." >> \o Normalize(name)

\* key.split("."): the pieces between dots, empty ones included.
Split(key) ==
  FoldLeft(LAMBDA acc, ch : IF ch = "." THEN Append(acc, << >>)
                            ELSE [acc EXCEPT ![Len(acc)] = Append(@, ch)],
           << << >> >>, key)

(***************************************************************************)
(* The connection handler and the clients.                                 *)
(***************************************************************************)
\* Mutation: the handler reaches the await without calling listen.
ConnectNoListen(s) ==
  /\ up /\ conn[s] = "none"
  /\ conn' = [conn EXCEPT ![s] = "awaiting"]
  /\ queue' = [queue EXCEPT ![s] = << >>]
  /\ UNCHANGED << listening, confirmed, publisherReady, consumers, inbox, sent,
                  published, devMsgs, notified, up, restarts >>

\* io "connection": the handler runs up to await publisher; listen(handleRecv)
\* has registered s's consumer.
Connect(s) ==
  /\ up /\ conn[s] = "none"
  /\ conn' = [conn EXCEPT ![s] = "awaiting"]
  /\ consumers' = consumers \cup {s}
  /\ queue' = [queue EXCEPT ![s] = << >>]
  /\ UNCHANGED << listening, confirmed, publisherReady, inbox, sent, published,
                  devMsgs, notified, up, restarts >>

\* The publisher promise resolves (once, for every connection).
ResolvePublisher ==
  /\ up /\ ~publisherReady
  /\ publisherReady' = TRUE
  /\ UNCHANGED << conn, listening, confirmed, consumers, inbox, sent, published,
                  queue, devMsgs, notified, up, restarts >>

\* Mutation: the handler resumes and confirms without registering socket.on.
ResumeNoListener(s) ==
  /\ conn[s] = "awaiting" /\ publisherReady
  /\ conn' = [conn EXCEPT ![s] = "open"]
  /\ UNCHANGED << listening, confirmed, publisherReady, consumers, inbox, sent,
                  published, queue, devMsgs, notified, up, restarts >>

\* The await resumes: emit "confirmation", then socket.on("event"), in one
\* synchronous run of the handler.
Resume(s) ==
  /\ conn[s] = "awaiting" /\ publisherReady
  /\ conn' = [conn EXCEPT ![s] = "open"]
  /\ listening' = listening \cup {s}
  /\ UNCHANGED << confirmed, publisherReady, consumers, inbox, sent, published,
                  queue, devMsgs, notified, up, restarts >>

\* The client receives the confirmation frame.
ReceiveConfirmation(s) ==
  /\ conn[s] = "open" /\ s \notin confirmed
  /\ confirmed' = confirmed \cup {s}
  /\ UNCHANGED << conn, listening, publisherReady, consumers, inbox, sent,
                  published, queue, devMsgs, notified, up, restarts >>

\* The client emits "event" with a command (or a malformed frame).
Send(s, m, d, c) ==
  /\ Open(s) /\ m \notin DOMAIN sent
  /\ inbox' = [inbox EXCEPT ![s] = Append(@, m)]
  /\ sent' = sent @@ (m :> [sock |-> s, dev |-> d, cmd |-> c, afterConfirm |-> s \in confirmed])
  /\ UNCHANGED << conn, listening, confirmed, publisherReady, consumers, published,
                  queue, devMsgs, notified, up, restarts >>

\* The listener publishes frame m: its command parsed.
Publish(s, m) ==
  /\ published' = published \cup {[msg |-> m, key |-> RoutingKey(sent[m].dev, sent[m].cmd)]}
  /\ inbox' = [inbox EXCEPT ![s] = Tail(@)]
  /\ UNCHANGED << conn, listening, confirmed, publisherReady, consumers, sent,
                  queue, devMsgs, notified, up, restarts >>

\* The frame is consumed and nothing is published: no listener is
\* registered, or parse threw and Node 14 only logged the rejection.
Drop(s) ==
  /\ inbox' = [inbox EXCEPT ![s] = Tail(@)]
  /\ UNCHANGED << conn, listening, confirmed, publisherReady, consumers, sent,
                  published, queue, devMsgs, notified, up, restarts >>

\* parse threw and Node 15 or later exits on the unhandled rejection: every
\* socket closes, the AMQP connection and its consumers go with it.
Crash ==
  /\ up' = FALSE
  /\ conn' = [t \in Sockets |-> IF Open(t) THEN "closed" ELSE conn[t]]
  /\ inbox' = [t \in Sockets |-> << >>]
  /\ queue' = [t \in Sockets |-> << >>]
  /\ listening' = {} /\ consumers' = {} /\ publisherReady' = FALSE
  /\ UNCHANGED << confirmed, sent, published, devMsgs, notified, restarts >>

\* The next frame of s arrives at the server: socket.io calls the "event"
\* listener if one is registered, which parses the frame and publishes it.
Handle(s) ==
  /\ inbox[s] # << >>
  /\ LET m == Head(inbox[s]) IN
       CASE s \notin listening              -> Drop(s)
         [] sent[m].cmd # Malformed          -> Publish(s, m)
         [] OTHER                            -> Drop(s) \/ Crash

\* The process is started again.
Restart ==
  /\ ~up /\ restarts < MaxRestarts
  /\ up' = TRUE /\ restarts' = restarts + 1
  /\ UNCHANGED << conn, listening, confirmed, publisherReady, consumers, inbox, sent,
                  published, queue, devMsgs, notified >>

\* The socket disconnects: frames in flight are lost; nothing removes its
\* consumer.
Disconnect(s) ==
  /\ Open(s)
  /\ conn' = [conn EXCEPT ![s] = "closed"]
  /\ inbox' = [inbox EXCEPT ![s] = << >>]
  /\ UNCHANGED << listening, confirmed, publisherReady, consumers, sent, published,
                  queue, devMsgs, notified, up, restarts >>

\* A device publishes event e; every registered consumer's queue gets it.
DevicePublish(d, e) ==
  /\ devMsgs < MaxDeviceMsgs
  /\ devMsgs' = devMsgs + 1
  /\ queue' = [s \in Sockets |-> IF s \in consumers
                                  THEN Append(queue[s], [src |-> d, key |-> RoutingKey(d, e)])
                                  ELSE queue[s]]
  /\ UNCHANGED << conn, listening, confirmed, publisherReady, consumers, inbox, sent,
                  published, notified, up, restarts >>

\* handleRecv of s's consumer: split the routing key and emit it to s
\* (a no-op on a closed socket).
Recv(s) ==
  /\ queue[s] # << >>
  /\ LET q == Head(queue[s])
         parts == Split(q.key)
     IN notified' = IF Open(s)
                    THEN [notified EXCEPT ![s] = Append(@, [src |-> q.src,
                                 device |-> parts[1], event |-> parts[2]])]
                    ELSE notified
  /\ queue' = [queue EXCEPT ![s] = Tail(@)]
  /\ UNCHANGED << conn, listening, confirmed, publisherReady, consumers, inbox, sent,
                  published, devMsgs, up, restarts >>

Init ==
  /\ conn = [s \in Sockets |-> "none"]
  /\ listening = {} /\ confirmed = {} /\ publisherReady = FALSE /\ consumers = {}
  /\ inbox = [s \in Sockets |-> << >>]
  /\ sent = << >> /\ published = {}
  /\ queue = [s \in Sockets |-> << >>] /\ devMsgs = 0
  /\ notified = [s \in Sockets |-> << >>]
  /\ up = TRUE /\ restarts = 0

Next ==
  \/ ResolvePublisher \/ Restart
  \/ \E s \in Sockets :
       \/ Connect(s) \/ Resume(s) \/ ReceiveConfirmation(s) \/ Handle(s)
       \/ Disconnect(s) \/ Recv(s)
       \/ \E m \in Msgs, d \in DeviceIds, c \in CommandNames \cup {Malformed} : Send(s, m, d, c)
  \/ \E d \in DeviceIds, e \in EventNames : DevicePublish(d, e)

(***************************************************************************)
(* Fairness: socket.io hands every frame of an open socket to the server's *)
(* event loop, and an AMQP consumer is called for every message in its     *)
(* queue.  No client is obliged to connect or send, and the broker is not  *)
(* obliged to accept the publisher's connection.                           *)
(***************************************************************************)
Fairness == \A s \in Sockets : WF_vars(Handle(s)) /\ WF_vars(Recv(s))

Spec == Init /\ [][Next]_vars /\ Fairness
-----------------------------------------------------------------------------
(***************************************************************************)
(* Properties.                                                             *)
(***************************************************************************)
TypeOK ==
  /\ conn \in [Sockets -> {"none", "awaiting", "open", "closed"}]
  /\ listening \subseteq consumers
  /\ {s \in confirmed : conn[s] = "open"} \subseteq listening
  /\ inbox \in [Sockets -> Seq(DOMAIN sent)]
  /\ devMsgs \in 0 .. MaxDeviceMsgs /\ restarts \in 0 .. MaxRestarts
  /\ ~up => \A s \in Sockets : ~Open(s)

\* A command a client emits after it has received "confirmation" is
\* published, unless its socket closes first or the frame is malformed: the
\* handler registers socket.on("event") before the client can see the
\* confirmation, so no such frame meets a socket without a listener.
CommandsAfterConfirmationPublished ==
  \A m \in Msgs :
    m \in DOMAIN sent /\ sent[m].afterConfirm /\ sent[m].cmd # Malformed
      ~> /\ m \in DOMAIN sent
         /\ \/ \E p \in published : p.msg = m
            \/ conn[sent[m].sock] = "closed"

\* Handling one client's frame never closes another client's connection:
\* the listener works "on the WS connection with a specific client" (the
\* comment at the await), and a frame that fails to parse should cost at
\* most that frame.
OneClientCannotCloseAnother ==
  [][\A s, t \in Sockets : s # t /\ Handle(s) => conn'[t] = conn[t]]_vars
====
