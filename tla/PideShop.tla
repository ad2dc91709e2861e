------------------------------ MODULE PideShop ------------------------------
(***************************************************************************)
(* The PideShop server as a whole: the kitchen, the motos, the main thread *)
(* (main, handleClient, handler of src/final/server.c) and the clients     *)
(* (src/final/client.c).                                                   *)
(***************************************************************************)
EXTENDS Kitchen, Delivery

shop == <<ovenMutex, preparedMutex, ovenQueue, preparedQueue, aparatus, cookVars,
          sicakPide, motoVars>>

Final == {"CANCELLED", "DELIVERED", "BURNED"}

\* exit(), or a return from main, ends every thread of the process.
Down == pc' = [t \in Threads |-> "down"]

-----------------------------------------------------------------------------
(* The clients.  client[c] is "waiting" from connect() until the client    *)
(* sends its last status and leaves.                                       *)

Connect(c) ==
    /\ client[c] = "idle" /\ ~At(Main, "down")
    /\ client' = [client EXCEPT ![c] = "waiting"]
    /\ backlog' = backlog \cup {c}
    /\ UNCHANGED <<pc, waiters, shop, orderQueue, flags, counts, mainVars, mail>>

\* Main loop of the client: DELIVERED and BURNED are echoed to the server.
Hear(c) ==
    /\ client[c] = "waiting" /\ mail[c] # "none"
    /\ client' = [client EXCEPT ![c] = mail[c]]
    /\ UNCHANGED <<pc, waiters, shop, orderQueue, flags, counts, mainVars, mail, backlog>>

\* SIGINT in the client.
Cancel(c) ==
    /\ c \in CanCancel /\ client[c] = "waiting"
    /\ client' = [client EXCEPT ![c] = "CANCELLED"]
    /\ UNCHANGED <<pc, waiters, shop, orderQueue, flags, counts, mainVars, mail, backlog>>

-----------------------------------------------------------------------------
(* The main thread. *)

\* Bug: siparisIptal is not reset for the next client.
AcceptStillCancelled ==
    /\ At(Main, "accept")
    /\ \E c \in backlog : cur' = c /\ backlog' = backlog \ {c}
    /\ onlysendFlag' = TRUE
    /\ Goto(Main, "info")
    /\ UNCHANGED <<waiters, shop, orderQueue, flags, totalOrder, totalReceived,
                   totalOrderSize, newOrder, sockfd, client, mail>>

Accept ==
    /\ At(Main, "accept")
    /\ \E c \in backlog : cur' = c /\ backlog' = backlog \ {c}
    /\ siparisIptal' = FALSE
    /\ onlysendFlag' = TRUE
    /\ Goto(Main, "info")
    /\ UNCHANGED <<waiters, shop, orderQueue, cancelled, totalOrder, totalReceived,
                   totalOrderSize, newOrder, sockfd, client, mail>>

\* Main has accepted a client and is not through with what it sends first.
Early == {"info", "socket", "size", "orders"}
AfterOrders(n) == IF n <= Size[cur] THEN "put" ELSE "serve"

\* recv() writes the whole of environmentInfo: its sockfd is 0 in a client's first message.
ReceiveInfo ==
    /\ At(Main, "info")
    /\ sockfd' = 0
    /\ Goto(Main, "socket")
    /\ UNCHANGED <<waiters, shop, orderQueue, flags, counts, cur, newOrder, clientVars>>

StoreSocket ==
    /\ At(Main, "socket")
    /\ sockfd' = cur
    /\ Goto(Main, "size")
    /\ UNCHANGED <<waiters, shop, orderQueue, flags, counts, cur, newOrder, clientVars>>

StoreSize ==
    /\ At(Main, "size")
    /\ totalOrderSize' = Size[cur]
    /\ Goto(Main, "orders")
    /\ UNCHANGED <<waiters, shop, orderQueue, flags, totalOrder, totalReceived, onlysendFlag,
                   mainVars, clientVars>>

\* Bug: totalReceived is not reset for the next client.
ReceiveOrdersOnTop ==
    /\ At(Main, "orders")
    /\ newOrder' = 1
    /\ Goto(Main, AfterOrders(1))
    /\ UNCHANGED <<waiters, shop, orderQueue, flags, counts, cur, sockfd, clientVars>>

\* The count of the deliveries is reset, and the homes are received.
ReceiveOrders ==
    /\ At(Main, "orders")
    /\ totalReceived' = 0
    /\ newOrder' = 1
    /\ Goto(Main, AfterOrders(1))
    /\ UNCHANGED <<waiters, shop, orderQueue, flags, totalOrder, totalOrderSize, onlysendFlag,
                   cur, sockfd, clientVars>>

PutOrder ==
    /\ At(Main, "put") /\ ~IsFull(orderQueue, QueueCap)
    /\ orderQueue' = Enqueue(orderQueue, QueueCap, <<cur, newOrder>>)
    /\ Broadcast({"orderFull"})
    /\ Goto(Main, "count")
    /\ UNCHANGED <<shop, flags, counts, mainVars, clientVars>>

\* No thread ever signals orderEmpty, so "putWait" has no way out.
OrdersFull ==
    /\ At(Main, "put") /\ IsFull(orderQueue, QueueCap)
    /\ Sleep(Main, "orderEmpty", "putWait")
    /\ UNCHANGED <<shop, orderQueue, flags, counts, mainVars, clientVars>>

CountOrder ==
    /\ At(Main, "count")
    /\ totalOrder' = totalOrder + 1
    /\ newOrder' = newOrder + 1
    /\ Goto(Main, AfterOrders(newOrder + 1))
    /\ UNCHANGED <<waiters, shop, orderQueue, flags, totalReceived, totalOrderSize,
                   onlysendFlag, cur, sockfd, clientVars>>

\* CANCELLED: raise(SIGUSR1) runs the handler; recv has written its sockfd
\* field, 0 in that message, over the socket.
ServeCancelled ==
    /\ At(Main, "serve") /\ client[cur] = "CANCELLED"
    /\ siparisIptal' = TRUE
    /\ Broadcast({"apparatusCond", "ovenCondFull", "ovenCondEmpty"})
    /\ sockfd' = 0
    /\ Goto(Main, "accept")
    /\ UNCHANGED <<shop, orderQueue, cancelled, counts, cur, newOrder, clientVars>>

Served ==
    /\ At(Main, "serve")
    /\ \/ client[cur] = "DELIVERED" /\ Goto(Main, "accept")
       \/ client[cur] = "BURNED" /\ Goto(Main, "join")
    /\ UNCHANGED <<waiters, shop, orderQueue, flags, counts, mainVars, clientVars>>

Join ==
    /\ At(Main, "join") /\ \A t \in Cooks \cup Motos : At(t, "exit")
    /\ Down
    /\ UNCHANGED <<waiters, shop, orderQueue, flags, counts, mainVars, clientVars>>

\* The handler calls exit(0) when there has been no client; main exits when the signal
\* interrupts its accept() or, in handleClient, its recv().
BurnEnds ==
    /\ sockfd = Nobody \/ (At(Main, "accept") /\ sockfd # 0) \/ At(Main, "orders")
    /\ Down
    /\ UNCHANGED <<cancelled, waiters, mail, sockfd, counts, siparisIptal>>

\* It interrupts no call, or the recv() of the client's last word, which main repeats.
BurnSets ==
    /\ sockfd # Nobody
    /\ Tell("BURNED")
    /\ cancelled' = TRUE
    /\ SignalApparatus({"orderFull", "ovenCondEmpty", "preparedFull", "ovenCondFull",
                        "preparedEmpty"})
    /\ UNCHANGED <<pc, sockfd, counts, siparisIptal>>

\* It interrupts an accept() after a CANCELLED message, which has left 0 in clientCapacity:
\* main serves the failed socket as an empty, cancelled client and is back in accept().
BurnServes ==
    /\ sockfd = 0 /\ At(Main, "accept")
    /\ cancelled' = TRUE /\ siparisIptal' = TRUE
    /\ Broadcast(Conds \ {"orderEmpty"})
    /\ sockfd' = Nobody
    /\ totalOrderSize' = 0 /\ totalReceived' = 0 /\ onlysendFlag' = TRUE
    /\ UNCHANGED <<pc, mail, totalOrder>>

\* SIGINT, at most once; the main thread runs the handler.
Burn ==
    /\ cur \in BurnIn /\ ~cancelled /\ ~At(Main, "down")
    /\ BurnEnds \/ BurnSets \/ BurnServes
    /\ UNCHANGED <<shop, orderQueue, cur, newOrder, client, backlog>>

MainThread ==
    \/ Accept \/ ReceiveInfo \/ StoreSocket \/ StoreSize \/ ReceiveOrders \/ PutOrder \/ OrdersFull \/ CountOrder
    \/ ServeCancelled \/ Served \/ Join

-----------------------------------------------------------------------------
Init ==
    /\ pc = [t \in Threads |-> IF t \in Cooks THEN "order"
                               ELSE IF t \in Motos THEN "load"
                               ELSE IF t = Main THEN "accept" ELSE "none"]
    /\ waiters = [k \in Conds |-> {}]
    /\ ovenMutex = Nobody /\ preparedMutex = Nobody
    /\ orderQueue = << >> /\ ovenQueue = << >> /\ preparedQueue = << >>
    /\ aparatus = Apparatus
    /\ siparisIptal = FALSE /\ cancelled = FALSE
    /\ totalOrder = 0 /\ totalReceived = 0 /\ totalOrderSize = 0 /\ onlysendFlag = TRUE
    /\ sockfd = Nobody /\ cur = Nobody /\ newOrder = 1
    /\ preparePide = [c \in Cooks |-> Phantom]
    /\ aparatAzaltildi = [c \in Cooks |-> FALSE]
    /\ sicakPide = [t \in Pides |-> Phantom]
    /\ bag = [m \in Motos |-> << >>]
    /\ flag = [m \in Motos |-> FALSE]
    /\ trip = [m \in Motos |-> 1]
    /\ delivered = {}
    /\ client = [c \in Clients |-> "idle"]
    /\ mail = [c \in Clients |-> "none"]
    /\ backlog = {}

Next ==
    \/ \E c \in Cooks : Cook(c)
    \/ \E t \in Pides : Timer(t)
    \/ \E m \in Motos : Moto(m)
    \/ MainThread \/ Burn
    \/ \E c \in Clients : Connect(c) \/ Hear(c) \/ Cancel(c)

Spec == Init /\ [][Next]_vars

\* The scheduler runs every thread that can go on, and a mutex that is freed
\* again and again is granted in the end.  Clients connect and read their
\* socket; no one has to interrupt anything.
FairSpec ==
    /\ Spec
    /\ \A c \in Cooks : SF_vars(Cook(c))
    /\ \A t \in Pides : SF_vars(Timer(t))
    /\ \A m \in Motos : SF_vars(Moto(m))
    /\ WF_vars(MainThread)
    /\ \A c \in Clients : WF_vars(Connect(c)) /\ WF_vars(Hear(c))
=============================================================================
