-------------------------------- MODULE Agent --------------------------------
(***************************************************************************)
(* The agent, a proxy between clients that speak the MySQL protocol and a  *)
(* dtcd: the life of a message from its arrival on a client connection to  *)
(* the moment its memory is given back, through the queues of both         *)
(* connections, the tree of requests that dtcd has, the timeout tree, the  *)
(* closing of either side and the queue of connections that have something *)
(* to send.                                                                *)
(*                                                                         *)
(* One turn of core_loop handles events, then the connections that were    *)
(* put in wait_send_queue, then timeouts.  A request is a whole one: what  *)
(* has arrived in part changes nothing but conn->rmsg.  A client has one   *)
(* request at a time and gives up waiting, without closing, only for a     *)
(* request the agent has given up too.                                     *)
(***************************************************************************)
EXTENDS Naturals, FiniteSets, Sequences, Functions, Queues

CONSTANTS
  Client,         \* client connections
  Server,         \* connections to the dtcd instance, server_connections of them
  Greeting, None,
  KeyKnown,       \* whether the key of the table may be known at the start
  server_timeout, \* Timeout of the pool of servers, 0 when it is not positive: none
  sum_nconn,      \* room in wait_send_queue
  max_msg         \* bound: messages allocated

ASSUME AgentAssumption ==
  /\ Client \cap Server = {} /\ IsFiniteSet(Client) /\ IsFiniteSet(Server)
  /\ None \notin Client \cup Server \cup (1 .. max_msg) \cup {Greeting}
  /\ Greeting \notin 1 .. max_msg
  /\ KeyKnown \subseteq BOOLEAN
  /\ server_timeout \in Nat /\ sum_nconn \in Nat /\ max_msg \in Nat

Msg == 1 .. max_msg
Conn == Client \cup Server

VARIABLES
  stage,       \* of a client connection: closed, logging in or logged in
  link,        \* of a server connection: closed, connecting or connected
  s_conn_q,    \* the instance's server connections, least recently used first
  cli_in, cli_out,   \* imsg_q and omsg_q of a client connection
  sev_in,      \* imsg_q of a server connection: requests to be sent
  tree,        \* msg_tree of a server connection: requests dtcd has
  tmo,         \* the timeout tree, in the order of expiry
  msg,         \* the flags of each message
  msg_id,      \* messages allocated so far
  g_dtc_key_type,    \* the key of the table is known
  active,      \* connections with SEND_ACTIVE: epoll tells when they can send
  failed,      \* connections with an error that nobody has handled yet
  sendq,       \* wait_send_queue, and the connections with writecached
  fresh,       \* connections made in this turn: epoll has no event for them yet
  phase, due,  \* the part of the turn, and the timeouts that have expired in it
  dtcd,        \* requests dtcd has received and not answered
  waiting,     \* the request a client waits for
  stray        \* the kinds of message whose answer went to a client not waiting for it

vars == <<stage, link, s_conn_q, cli_in, cli_out, sev_in, tree, tmo, msg, msg_id, g_dtc_key_type,
          active, failed, sendq, fresh, phase, due, dtcd, waiting, stray>>

turn == <<fresh, phase, due>>

(* An event of a connection may be handled.  When an error shows, the      *)
(* handler closes the connection at its end: a step of its own here.       *)
EventOf(conn) == phase = "events" /\ conn \notin fresh

Admin == {"NOP", "KEY_DEFINE"}
Message ==
  [live : BOOLEAN, owner : Client \cup {None}, admin : Admin, swallow : BOOLEAN,
   done : BOOLEAN, error : BOOLEAN, sending : BOOLEAN]
NoMsg == [live |-> FALSE, owner |-> None, admin |-> "NOP", swallow |-> FALSE, done |-> FALSE,
          error |-> FALSE, sending |-> FALSE]
NewMsg(c, admin) == [NoMsg EXCEPT !.live = TRUE, !.owner = c, !.admin = admin]

Open(c) == stage[c] # "closed"

(* the messages of a tree, in the order of their ids *)
InOrder(ids) == Without([i \in Msg |-> i], Msg \ ids)

(* one client logged in, no connection to dtcd yet *)
Init ==
  /\ \E c \in Client : stage = [d \in Client |-> IF d = c THEN "LOGGED_IN" ELSE "closed"]
  /\ link = [s \in Server |-> "closed"]
  /\ s_conn_q = << >>
  /\ cli_in = [c \in Client |-> << >>]
  /\ cli_out = [c \in Client |-> << >>]
  /\ sev_in = [s \in Server |-> << >>]
  /\ tree = [s \in Server |-> {}]
  /\ tmo = << >>
  /\ msg = [i \in Msg |-> NoMsg]
  /\ msg_id = 0
  /\ g_dtc_key_type \in KeyKnown
  /\ active = {}
  /\ failed = {}
  /\ sendq = [queue |-> << >>, cached |-> {}]
  /\ fresh = {}
  /\ phase = "events"
  /\ due = 0
  /\ dtcd = [s \in Server |-> {}]
  /\ waiting = [c \in Client |-> None]
  /\ stray = {}
-----------------------------------------------------------------------------
(* mutant: neither the room nor writecached is looked at *)
cache_send_event_Unchecked(q, conn) ==
  [queue |-> Append(q.queue, conn), cached |-> q.cached \cup {conn}]

(* a connection with something to send is put in wait_send_queue, if there is room *)
cache_send_event(q, conn) ==
  IF conn \notin q.cached /\ Len(q.queue) < sum_nconn
  THEN [queue |-> Append(q.queue, conn), cached |-> q.cached \cup {conn}]
  ELSE q

(* req_put of several messages, given the flags and timeouts of all *)
req_put(flags, timers, ids) ==
  /\ msg' = [i \in Msg |-> IF i \in ids THEN NoMsg ELSE flags[i]]
  /\ tmo' = Without(timers, ids)

(* a message gets a timeout, the last to expire, if the pool has one *)
msg_tmo_insert(timers, i) == IF server_timeout > 0 THEN Append(timers, i) ELSE timers

(* the same for the clients of several messages, one after the other *)
cache_clients(q, ids) ==
  LET after[n \in 0 .. Len(ids)] ==
        IF n = 0 THEN q ELSE cache_send_event(after[n - 1], msg[ids[n]].owner)
  IN after[Len(ids)]

(* rsp_forward: requests that are done go from the client's in queue to its out queue *)
rsp_forward(ids, in, out, q) ==
  /\ cli_in' = [c \in Client |-> Without(in[c], Range(ids))]
  /\ cli_out' = [c \in Client |-> out[c] \o Without(ids, {i \in Msg : msg[i].owner # c})]
  /\ sendq' = cache_clients(q, ids)

(* server_pool_conn fails: the client gets an error *)
forward_error(c, i, m, q, out) ==
  /\ msg' = [msg EXCEPT ![i] = [m EXCEPT !.done = TRUE, !.error = TRUE]]
  /\ cli_out' = [out EXCEPT ![c] = Append(@, i)]
  /\ sendq' = cache_send_event(q, c)
  /\ UNCHANGED <<link, s_conn_q, cli_in, sev_in, tmo>>

(***************************************************************************)
(* server_pool_conn finds connection s, whose state is then state: a new   *)
(* one as long as there are fewer than server_connections, else the least  *)
(* recently used one.  None: the connection cannot be made.  on and new    *)
(* are the active and the fresh connections before it.                     *)
(***************************************************************************)
server_pool_conn(s, state, on, new) ==
  IF Len(s_conn_q) < Cardinality(Server)
  THEN \/ s = None /\ state = "closed" /\ active' = on /\ fresh' = new
       \/ /\ s \in Server \ Range(s_conn_q) /\ state \in {"connecting", "connected"}
          /\ active' = on \cup {s} /\ fresh' = new \cup {s}
  ELSE s = Head(s_conn_q) /\ state = link[s] /\ active' = on /\ fresh' = new

(* the queues after req_forward on connection s; a new one is not in wait_send_queue *)
enqueue_inq(c, i, m, q, out, s, state) ==
  LET r == IF link[s] = "closed" THEN [q EXCEPT !.cached = @ \ {s}] ELSE q IN
  /\ link' = [link EXCEPT ![s] = state]
  /\ s_conn_q' = Append(Without(s_conn_q, {s}), s)
  /\ cli_in' = [cli_in EXCEPT ![c] = Append(@, i)]
  /\ cli_out' = out
  /\ sev_in' = [sev_in EXCEPT ![s] = Append(@, i)]
  /\ tmo' = msg_tmo_insert(tmo, i)
  /\ msg' = [msg EXCEPT ![i] = m]
  /\ sendq' = IF state = "connected" THEN cache_send_event(r, s) ELSE r

(* req_forward of message i; q and out are the send queue and the out queues before it *)
req_forward(c, i, m, q, out, on, new) ==
  \E s \in Server \cup {None}, state \in {"closed", "connecting", "connected"} :
    /\ server_pool_conn(s, state, on, new)
    /\ IF s = None THEN forward_error(c, i, m, q, out)
                   ELSE enqueue_inq(c, i, m, q, out, s, state)
-----------------------------------------------------------------------------
(* listener_accept: the greeting, and a request for the key when it is not known *)
listener_accept(c) ==
  LET out == [cli_out EXCEPT ![c] = <<Greeting>>]
      q == cache_send_event([sendq EXCEPT !.cached = @ \ {c}], c)
  IN
  /\ phase = "events"
  /\ ~Open(c)
  /\ stage' = [stage EXCEPT ![c] = "LOGGING_IN"]
  /\ waiting' = [waiting EXCEPT ![c] = Greeting]
  /\ IF g_dtc_key_type
     THEN /\ cli_out' = out
          /\ sendq' = q
          /\ active' = active \cup {c} /\ fresh' = fresh \cup {c}
          /\ UNCHANGED <<link, s_conn_q, cli_in, sev_in, tmo, msg, msg_id>>
     ELSE /\ msg_id < max_msg
          /\ msg_id' = msg_id + 1
          /\ req_forward(c, msg_id + 1, NewMsg(c, "KEY_DEFINE"), q, out, active \cup {c},
                         fresh \cup {c})
  /\ UNCHANGED <<tree, g_dtc_key_type, failed, phase, due, dtcd, stray>>

(* req_make_loopback: the agent answers by itself *)
req_make_loopback(c, i) ==
  /\ msg' = [msg EXCEPT ![i] = [NewMsg(c, "NOP") EXCEPT !.done = TRUE]]
  /\ cli_out' = [cli_out EXCEPT ![c] = Append(@, i)]
  /\ sendq' = cache_send_event(sendq, c)
  /\ UNCHANGED <<link, s_conn_q, cli_in, sev_in, tmo, active, fresh>>

(***************************************************************************)
(* A request arrives: msg_parse, req_recv_done, req_process.  The first    *)
(* one is the login; a later one is answered by the agent or forwarded.    *)
(***************************************************************************)
req_process(c) ==
  LET i == msg_id + 1 IN
  /\ EventOf(c)
  /\ Open(c)
  /\ waiting[c] = None
  /\ i \in Msg
  /\ msg_id' = i
  /\ waiting' = [waiting EXCEPT ![c] = i]
  /\ stage' = [stage EXCEPT ![c] = "LOGGED_IN"]
  /\ \/ req_make_loopback(c, i)
     \/ /\ stage[c] = "LOGGED_IN"
        /\ req_forward(c, i, NewMsg(c, "NOP"), sendq, cli_out, active, fresh)
  /\ UNCHANGED <<tree, g_dtc_key_type, failed, phase, due, dtcd, stray>>

(* mutant: requests that dtcd has are left as they are *)
client_close_flags_KeepsOpen(c, flags) == flags

(* the flags after client_close: what is not done is swallowed when its answer comes *)
client_close_flags(c, flags) ==
  [i \in Msg |-> IF i \in Range(cli_in[c]) /\ ~flags[i].done
                 THEN [flags[i] EXCEPT !.swallow = TRUE] ELSE flags[i]]

(***************************************************************************)
(* client_close, after an end of file or an error.  Everything that waits  *)
(* to be sent to the client, or is done, is given back.                    *)
(***************************************************************************)
client_close(c) ==
  /\ EventOf(c)
  /\ Open(c)
  /\ stage' = [stage EXCEPT ![c] = "closed"]
  /\ LET gone == Range(cli_out[c]) \cup {i \in Range(cli_in[c]) : msg[i].done}
     IN req_put(client_close_flags(c, msg), tmo, gone \ {Greeting})
  /\ cli_in' = [cli_in EXCEPT ![c] = << >>]
  /\ cli_out' = [cli_out EXCEPT ![c] = << >>]
  /\ active' = active \ {c}
  /\ failed' = failed \ {c}
  /\ waiting' = [waiting EXCEPT ![c] = None]
  /\ UNCHANGED <<link, s_conn_q, sev_in, tree, msg_id, g_dtc_key_type, sendq, turn, dtcd, stray>>

(* a client stops waiting for a request that the agent has given up *)
give_up(c) ==
  /\ waiting[c] \in Msg
  /\ ~msg[waiting[c]].live \/ msg[waiting[c]].swallow
  /\ waiting' = [waiting EXCEPT ![c] = None]
  /\ UNCHANGED <<stage, link, s_conn_q, cli_in, cli_out, sev_in, tree, tmo, msg, msg_id,
                 g_dtc_key_type, active, failed, sendq, turn, dtcd, stray>>
-----------------------------------------------------------------------------
(***************************************************************************)
(* rsp_recv_done: dtcd answers request i.  The request may be gone (it     *)
(* timed out) or swallowed (its client is gone, or it timed out while it   *)
(* was being sent).  What is done with an answer depends on the admin code *)
(* in its own header: dtcd sets KEY_DEFINE for some statements, whoever    *)
(* sent them, and NOP for the others.                                      *)
(***************************************************************************)
rsp_recv_done(s, i, admin) ==
  /\ EventOf(s)
  /\ i \in dtcd[s]
  /\ dtcd' = [dtcd EXCEPT ![s] = @ \ {i}]
  /\ tree' = [tree EXCEPT ![s] = @ \ {i}]
  /\ IF i \notin tree[s]
     THEN UNCHANGED <<cli_in, cli_out, sendq, msg, tmo, g_dtc_key_type>>
     ELSE IF msg[i].swallow
     THEN req_put(msg, tmo, {i}) /\ UNCHANGED <<cli_in, cli_out, sendq, g_dtc_key_type>>
     ELSE IF admin = "KEY_DEFINE"
     THEN /\ g_dtc_key_type' = TRUE
          /\ cli_in' = [cli_in EXCEPT ![msg[i].owner] = Without(@, {i})]
          /\ req_put(msg, tmo, {i})
          /\ UNCHANGED <<cli_out, sendq>>
     ELSE /\ msg' = [msg EXCEPT ![i].done = TRUE]
          /\ rsp_forward(<<i>>, cli_in, cli_out, sendq)
          /\ UNCHANGED <<tmo, g_dtc_key_type>>
  /\ UNCHANGED <<stage, link, s_conn_q, sev_in, msg_id, active, failed, turn, waiting,
                 stray>>

(***************************************************************************)
(* server_close, after an end of file or an error: requests to be sent and *)
(* requests without an answer are given back when they are swallowed, and  *)
(* answered with an error when they are not.                               *)
(***************************************************************************)
server_close(s) ==
  LET open == sev_in[s] \o InOrder(tree[s])
      gone == {i \in Range(open) : msg[i].swallow}
      back == Without(open, gone)
  IN
  /\ EventOf(s)
  /\ link[s] # "closed"
  /\ link' = [link EXCEPT ![s] = "closed"]
  /\ s_conn_q' = Without(s_conn_q, {s})
  /\ req_put([i \in Msg |-> IF i \in Range(back)
                            THEN [msg[i] EXCEPT !.done = TRUE, !.error = TRUE] ELSE msg[i]],
             tmo, gone)
  /\ rsp_forward(back, cli_in, cli_out, sendq)
  /\ sev_in' = [sev_in EXCEPT ![s] = << >>]
  /\ tree' = [tree EXCEPT ![s] = {}]
  /\ active' = active \ {s}
  /\ failed' = failed \ {s}
  /\ dtcd' = [dtcd EXCEPT ![s] = {}]
  /\ UNCHANGED <<stage, msg_id, g_dtc_key_type, turn, waiting, stray>>
-----------------------------------------------------------------------------
(* msg_send to a client: the first k replies *)
rsp_send(c, k) ==
  LET sent == Range(SubSeq(cli_out[c], 1, k)) IN
  /\ cli_out' = [cli_out EXCEPT ![c] = SubSeq(@, k + 1, Len(@))]
  /\ req_put(msg, tmo, sent \ {Greeting})
  /\ waiting' = [waiting EXCEPT ![c] = IF @ \in sent THEN None ELSE @]
  /\ stray' = stray \cup {msg[i].admin : i \in sent \ {Greeting, waiting[c]}}
  /\ UNCHANGED <<link, sev_in, tree, dtcd>>

(* msg_send to dtcd: the first k requests; the others were handed to it too *)
req_send(s, k) ==
  LET sent == Range(SubSeq(sev_in[s], 1, k))
      rest == SubSeq(sev_in[s], k + 1, Len(sev_in[s]))
  IN
  /\ link' = [link EXCEPT ![s] = "connected"]
  /\ sev_in' = [sev_in EXCEPT ![s] = rest]
  /\ tree' = [tree EXCEPT ![s] = @ \cup sent]
  /\ dtcd' = [dtcd EXCEPT ![s] = @ \cup sent]
  /\ msg' = [i \in Msg |-> IF i \in sent \cup Range(rest)
                           THEN [msg[i] EXCEPT !.sending = i \notin sent] ELSE msg[i]]
  /\ UNCHANGED <<cli_out, tmo, waiting, stray>>

Queue(conn) == IF conn \in Client THEN cli_out[conn] ELSE sev_in[conn]

(* core_send: k messages leave; with nothing left epoll is no longer asked *)
core_send(conn, k, on) ==
  /\ IF conn \in Client THEN rsp_send(conn, k) ELSE req_send(conn, k)
  /\ active' = IF k = Len(Queue(conn)) THEN active \ {conn} ELSE on

(* EPOLLOUT on a connection, core_core *)
send_event(conn, k) ==
  /\ EventOf(conn)
  /\ conn \in active
  /\ k <= Len(Queue(conn))
  /\ core_send(conn, k, active)
  /\ UNCHANGED <<stage, s_conn_q, cli_in, msg_id, g_dtc_key_type, failed, sendq, turn>>

(* event_wait is through with the events of this turn *)
events_done ==
  /\ phase = "events"
  /\ phase' = "write"
  /\ fresh' = {}
  /\ UNCHANGED <<stage, link, s_conn_q, cli_in, cli_out, sev_in, tree, tmo, msg, msg_id,
                 g_dtc_key_type, active, failed, sendq, due, dtcd, waiting, stray>>

Closed(conn) == IF conn \in Client THEN ~Open(conn) ELSE link[conn] = "closed"

(* mutant: epoll is not asked when something is left *)
active_after_Same(conn) == active

(* event_add_out after a send that left something *)
active_after(conn) == active \cup {conn}

(***************************************************************************)
(* process_cached_write_event, one connection of wait_send_queue.  It may  *)
(* have been closed in this turn: its queues are empty then.  An error is  *)
(* left to the next event of the connection.                               *)
(***************************************************************************)
process_cached_write_event ==
  LET conn == Head(sendq.queue) IN
  /\ phase = "write"
  /\ sendq.queue # << >>
  /\ sendq' = [queue |-> Tail(sendq.queue), cached |-> sendq.cached \ {conn}]
  /\ IF Closed(conn)
     THEN UNCHANGED <<cli_out, msg, tmo, waiting, stray, link, sev_in, tree, dtcd,
                      active, failed>>
     ELSE \/ /\ \E k \in 0 .. Len(Queue(conn)) :
                  core_send(conn, k, active_after(conn))
             /\ UNCHANGED failed
          \/ /\ \E k \in 0 .. Len(Queue(conn)) - 1 : core_send(conn, k, active)
             /\ failed' = failed \cup {conn}
  /\ UNCHANGED <<stage, s_conn_q, cli_in, msg_id, g_dtc_key_type, turn>>

(* the timeouts begin: the first n of them have expired *)
writes_done(n) ==
  /\ phase = "write"
  /\ sendq.queue = << >>
  /\ phase' = "timeout"
  /\ due' = n
  /\ UNCHANGED <<stage, link, s_conn_q, cli_in, cli_out, sev_in, tree, tmo, msg, msg_id,
                 g_dtc_key_type, active, failed, sendq, fresh, dtcd, waiting, stray>>

(* mutant: the request stays in the tree of its connection *)
reclaim_timeout_msg_KeepsTree(i) ==
  /\ cli_in' = [c \in Client |-> Without(cli_in[c], {i})]
  /\ sev_in' = [s \in Server |-> Without(sev_in[s], {i})]
  /\ req_put(msg, tmo, {i})
  /\ UNCHANGED tree

(* a request that is not being sent is taken out everywhere and given back *)
reclaim_timeout_msg(i) ==
  /\ cli_in' = [c \in Client |-> Without(cli_in[c], {i})]
  /\ sev_in' = [s \in Server |-> Without(sev_in[s], {i})]
  /\ tree' = [s \in Server |-> tree[s] \ {i}]
  /\ req_put(msg, tmo, {i})

(* mutant: the timeout is not set again *)
reclaim_sending_msg_NoTimer(i) ==
  /\ cli_in' = [c \in Client |-> Without(cli_in[c], {i})]
  /\ msg' = [msg EXCEPT ![i].swallow = TRUE]
  /\ tmo' = Tail(tmo)
  /\ UNCHANGED <<sev_in, tree>>

(* one that is being sent stays with the connection to dtcd: its answer is *)
(* swallowed, and it gets a new timeout                                    *)
reclaim_sending_msg(i) ==
  /\ cli_in' = [c \in Client |-> Without(cli_in[c], {i})]
  /\ msg' = [msg EXCEPT ![i].swallow = TRUE]
  /\ tmo' = msg_tmo_insert(Tail(tmo), i)
  /\ UNCHANGED <<sev_in, tree>>

(* core_timeout: the first timeout, or the end of the turn *)
core_timeout ==
  LET i == Head(tmo) IN
  /\ phase = "timeout"
  /\ IF tmo # << >> /\ (msg[i].done \/ msg[i].error)
     THEN tmo' = Tail(tmo) /\ UNCHANGED <<cli_in, sev_in, tree, msg, phase>>
     ELSE IF tmo # << >> /\ due > 0
     THEN /\ IF msg[i].sending THEN reclaim_sending_msg(i) ELSE reclaim_timeout_msg(i)
          /\ UNCHANGED phase
     ELSE phase' = "events" /\ UNCHANGED <<cli_in, sev_in, tree, msg, tmo>>
  /\ due' = IF due > 0 /\ phase' = "timeout" THEN due - 1 ELSE 0
  /\ UNCHANGED <<stage, link, s_conn_q, cli_out, msg_id, g_dtc_key_type, active, failed, sendq,
                 fresh, dtcd, waiting, stray>>
-----------------------------------------------------------------------------
Next ==
  \/ \E c \in Client : listener_accept(c) \/ req_process(c) \/ client_close(c) \/ give_up(c)
  \/ \E s \in Server : server_close(s) \/ \E i \in Msg : \E admin \in Admin : rsp_recv_done(s, i, admin)
  \/ \E conn \in Conn, k \in 0 .. max_msg + 1 : send_event(conn, k)
  \/ events_done
  \/ process_cached_write_event
  \/ \E n \in 0 .. Len(tmo) : writes_done(n)
  \/ core_timeout

(***************************************************************************)
(* The loop goes on.  A peer reads what it is sent, so that a connection   *)
(* epoll is asked about can send all again and again; an error is reported *)
(* by epoll; time passes, so that every timeout expires.  Nothing is asked *)
(* of dtcd, which need not answer.                                         *)
(***************************************************************************)
Fairness ==
  /\ WF_vars(events_done)
  /\ WF_vars(process_cached_write_event)
  /\ WF_vars(\E n \in 0 .. Len(tmo) : writes_done(n))
  /\ WF_vars(core_timeout)
  /\ SF_vars(writes_done(Len(tmo)))
  /\ \A conn \in Conn : SF_vars(send_event(conn, Len(Queue(conn))))
  /\ \A c \in Client : SF_vars(c \in failed /\ client_close(c))
  /\ \A s \in Server : SF_vars(s \in failed /\ server_close(s))

Spec == Init /\ [][Next]_vars /\ Fairness
-----------------------------------------------------------------------------
(* Every variable has its type, and wait_send_queue, an array of sum_nconn *)
(* pointers, is never written beyond its end by cache_send_event.          *)
TypeOK ==
  /\ stage \in [Client -> {"closed", "LOGGING_IN", "LOGGED_IN"}]
  /\ link \in [Server -> {"closed", "connecting", "connected"}]
  /\ s_conn_q \in Seq(Server)
  /\ cli_in \in [Client -> Seq(Msg)] /\ cli_out \in [Client -> Seq(Msg \cup {Greeting})]
  /\ sev_in \in [Server -> Seq(Msg)]
  /\ tree \in [Server -> SUBSET Msg] /\ dtcd \in [Server -> SUBSET Msg]
  /\ tmo \in Seq(Msg)
  /\ msg \in [Msg -> Message]
  /\ msg_id \in 0 .. max_msg
  /\ g_dtc_key_type \in BOOLEAN
  /\ active \subseteq Conn /\ failed \subseteq Conn /\ fresh \subseteq Conn
  /\ sendq \in [queue : Seq(Conn), cached : SUBSET Conn] /\ Len(sendq.queue) <= sum_nconn
  /\ phase \in {"events", "write", "timeout"} /\ due \in Nat
  /\ waiting \in [Client -> Msg \cup {Greeting, None}]
  /\ stray \subseteq Admin

(* the connections that have message i, by container *)
Asked(i) == {c \in Client : i \in Range(cli_in[c])}
Answered(i) == {c \in Client : i \in Range(cli_out[c])}
Queued(i) == {s \in Server : i \in Range(sev_in[s])}
Sent(i) == {s \in Server : i \in tree[s]}

(***************************************************************************)
(* A message is in the right places and in no other, whichever side closes *)
(* or times out first.  One that was given back is in no queue, tree or    *)
(* timeout.  One that has its answer waits in the out queue of its client, *)
(* which is connected.  One without is held by exactly one open connection *)
(* to dtcd and has a timeout if the pool has one, and its client has it in *)
(* its in queue unless the answer is to be swallowed.                      *)
(***************************************************************************)
InPlace(i) ==
  IF ~msg[i].live
  THEN /\ Asked(i) = {} /\ Answered(i) = {} /\ Queued(i) = {} /\ Sent(i) = {}
       /\ i \notin Range(tmo)
  ELSE IF msg[i].done
  THEN /\ Answered(i) = {msg[i].owner} /\ Open(msg[i].owner)
       /\ Asked(i) = {} /\ Queued(i) = {} /\ Sent(i) = {}
  ELSE /\ Answered(i) = {}
       /\ Asked(i) = IF msg[i].swallow THEN {} ELSE {msg[i].owner}
       /\ msg[i].swallow \/ Open(msg[i].owner)
       /\ Queued(i) \cap Sent(i) = {}
       /\ \E s \in Server : Queued(i) \cup Sent(i) = {s} /\ link[s] # "closed"
       /\ server_timeout > 0 => i \in Range(tmo)

MessageInPlace == \A i \in Msg : InPlace(i)

(***************************************************************************)
(* The answer to a client's request goes to the client that waits for this *)
(* request, never to one that connected later or has given the request up. *)
(* (The error of the agent's own request for the key is not such an        *)
(* answer; the client on whose behalf it was made gets it all the same.)   *)
(***************************************************************************)
OwnAnswer == "NOP" \notin stray

(***************************************************************************)
(* What is queued on a connection will be sent: the connection is in       *)
(* wait_send_queue, or epoll is asked to tell when it can send, or it is   *)
(* being closed.                                                           *)
(***************************************************************************)
OutputHasTrigger ==
  \A conn \in Conn :
    ~Closed(conn) /\ Queue(conn) # << >> =>
      conn \in active \cup failed \cup Range(sendq.queue)

(***************************************************************************)
(* Every message is given back in the end, by an answer, a close or a      *)
(* timeout, even if dtcd never answers.  Without a timeout, which is the   *)
(* default of the configuration, it is given back or is with dtcd.         *)
(***************************************************************************)
EveryMessageEnds ==
  \A i \in Msg :
    msg[i].live ~> \/ ~msg[i].live
                   \/ server_timeout = 0 /\ \E s \in Server : i \in dtcd[s]
====
