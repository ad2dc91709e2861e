---------------------------- MODULE BibakProofs ----------------------------
(***************************************************************************)
(* What is proved of BibakBox, for any finite set of files, any directory  *)
(* of the two sides at the start, and any number of sessions: the two ends *)
(* of the stream keep in step, and a client that gets through the first    *)
(* round has what the server listed.                                       *)
(***************************************************************************)
EXTENDS BibakBoxProperties, FiniteSetTheorems, TLAPS

\* The client has sent its first list and not yet taken the second one.
Sent1 == \/ cl \in {"compare", "read"} /\ round = 0
         \/ cl \in {"scan", "receive"} /\ round = 1

\* In the first round of the server the client is in its first one too, or ready for the next.
ServerFirst ==
    /\ srv \in {"scan", "send"} =>
          round = 0 /\ cl \in {"scan", "receive"} /\ toClient = << >> /\ toServer = << >>
    /\ srv = "receive" =>
          \/ /\ cl \in {"scan", "receive"} /\ round = 0
             /\ toClient = <<List(server_files, FALSE)>> /\ toServer = << >>
          \/ /\ cl = "send" /\ round = 0 /\ toClient = << >> /\ toServer = << >>
             /\ sizeof_server = server_files
          \/ /\ Sent1 /\ toClient = << >> /\ sizeof_server = server_files
             /\ Len(toServer) = 1 /\ toServer[1].slash = FALSE
    /\ srv \in {"compare", "write"} =>
          /\ Sent1 /\ toServer = << >> /\ sizeof_server = server_files /\ slash = FALSE
          /\ srv = "compare" => toClient = << >>
          /\ \A j \in DOMAIN toClient : toClient[j].kind = "file"
          /\ srv = "write" => toSend \subseteq server_files

\* In its later rounds it sends no file, and waits until the client is out of the first one.
ServerLater ==
    /\ toSend = {}
    /\ round = 0 \/ (cl = "scan" /\ sizeof_server # {}) =>
          srv \in {"scan", "send", "receive"} /\ toServer = << >>
    /\ round = 0 => cl \in {"compare", "read"}

Rounds ==
    cl # "gone" => /\ srv # "gone"
                   /\ counter = 0 => ServerFirst
                   /\ counter = 1 => ServerLater

\* How many files are on their way in the first round.
InFlight == Cardinality(FilesIn(toClient)) + Cardinality(ToCome)

Counts ==
    cl # "gone" =>
        /\ round = 1 => FilesIn(toClient) = {} /\ ToCome = {}
        /\ round = 0 /\ cl \in {"send", "compare"} => InFlight = Cardinality(sizeof_server)
        /\ round = 0 /\ cl = "read" => expect = InFlight + Cardinality(client_files \ sizeof_server)
        /\ round = 1 /\ cl = "read" =>
              expect = Cardinality(client_files) + Cardinality(sizeof_server)

\* What is not yet at the client is on its way, as it is at the server.
Coming ==
    round = 0 /\ cl \in {"send", "compare", "read"} =>
        /\ \A j \in FilesIn(toClient) :
              toClient[j].name \in sizeof_server /\ toClient[j].data = disk["server"][toClient[j].name]
        /\ \A f \in sizeof_server :
              \/ f \in ToCome
              \/ \E j \in FilesIn(toClient) : toClient[j].name = f
              \/ cl = "read" /\ disk["client"][f] = disk["server"][f]

\* What the client has it has found or created.
Found ==
    /\ cl \in {"receive", "send", "compare"} =>
          \A f \in Files : disk["client"][f] # "absent" => f \in client_files
    /\ cl = "read" =>
          \A f \in Files : disk["client"][f] # "absent" => f \in client_files \cup sizeof_server

\* What the two ends know of each other, as long as recv() returns whole entries.
Order == Rounds /\ Counts /\ Coming /\ Found /\ FirstRoundSync

IndInv == TypeOK /\ (~cut => Order)

-----------------------------------------------------------------------------
Messages == Lists \cup Sent

\* The files in a queue can be counted.
LEMMA FilesFinite ==
    ASSUME NEW q \in Seq(Messages)
    PROVE  IsFiniteSet(FilesIn(q)) /\ Cardinality(FilesIn(q)) \in Nat /\ FilesIn(q) \subseteq 1..Len(q)
<1>1. IsFiniteSet(1..Len(q))  BY FS_Interval
<1>2. FilesIn(q) \in SUBSET (1..Len(q))  BY DEF FilesIn
<1> QED  BY <1>1, <1>2, FS_Subset, FS_CardinalityType

\* A message more at the end.
LEMMA FilesAppend ==
    ASSUME NEW q \in Seq(Messages), NEW m \in Messages
    PROVE  LET r == Append(q, m)
           IN  /\ FilesIn(r) = FilesIn(q) \cup (IF m.kind = "file" THEN {Len(q) + 1} ELSE {})
               /\ \A j \in FilesIn(q) : r[j] = q[j]
               /\ r[Len(q) + 1] = m
               /\ Cardinality(FilesIn(r)) = Cardinality(FilesIn(q)) + (IF m.kind = "file" THEN 1 ELSE 0)
<1> DEFINE r == Append(q, m)
<1>1. /\ DOMAIN r = 1..(Len(q) + 1) /\ DOMAIN q = 1..Len(q) /\ Len(q) \in Nat
      /\ \A j \in 1..Len(q) : r[j] = q[j]
      /\ r[Len(q) + 1] = m
  OBVIOUS
<1> HIDE DEF r
<1>2. FilesIn(r) = FilesIn(q) \cup (IF m.kind = "file" THEN {Len(q) + 1} ELSE {})
  BY <1>1 DEF FilesIn
<1>3. Len(q) + 1 \notin FilesIn(q)  BY <1>1 DEF FilesIn
<1>4. IsFiniteSet(FilesIn(q)) /\ Cardinality(FilesIn(q)) \in Nat  BY FilesFinite
<1>5. Cardinality(FilesIn(q) \cup {Len(q) + 1}) = Cardinality(FilesIn(q)) + 1
  BY <1>3, <1>4, FS_AddElement
<1>6. Cardinality(FilesIn(r)) = Cardinality(FilesIn(q)) + (IF m.kind = "file" THEN 1 ELSE 0)
  <2>1. CASE m.kind = "file"  BY <1>2, <1>5, <2>1
  <2>2. CASE m.kind # "file"
    <3>1. FilesIn(r) = FilesIn(q)  BY <1>2, <2>2
    <3> QED  BY <1>4, <2>2, <3>1
  <2> QED  BY <2>1, <2>2
<1>7. \A j \in FilesIn(q) : r[j] = q[j]  BY <1>1 DEF FilesIn
<1> QED  BY <1>1, <1>2, <1>6, <1>7 DEF r

\* The first message is taken.
LEMMA FilesTail ==
    ASSUME NEW q \in Seq(Messages), q # << >>
    PROVE  /\ \A j : j \in FilesIn(Tail(q)) <=> j \in Nat \ {0} /\ j + 1 \in FilesIn(q)
           /\ \A j \in FilesIn(Tail(q)) : Tail(q)[j] = q[j + 1]
           /\ 1 \in FilesIn(q) <=> Head(q).kind = "file"
           /\ Cardinality(FilesIn(q)) =
                 Cardinality(FilesIn(Tail(q))) + (IF Head(q).kind = "file" THEN 1 ELSE 0)
<1> DEFINE t == Tail(q)
<1>1. /\ Len(q) \in Nat \ {0} /\ DOMAIN t = 1..(Len(q) - 1) /\ DOMAIN q = 1..Len(q)
      /\ \A j \in 1..(Len(q) - 1) : t[j] = q[j + 1]
      /\ Head(q) = q[1] /\ t \in Seq(Messages)
  OBVIOUS
<1> HIDE DEF t
<1>2. \A j : j \in FilesIn(t) <=> j \in Nat \ {0} /\ j + 1 \in FilesIn(q)  BY <1>1 DEF FilesIn
<1>3. \A j \in FilesIn(t) : t[j] = q[j + 1]  BY <1>1 DEF FilesIn
<1>4. 1 \in FilesIn(q) <=> Head(q).kind = "file"  BY <1>1 DEF FilesIn
<1>5. Cardinality(FilesIn(q) \ {1}) = Cardinality(FilesIn(t))
  <2> DEFINE shift == [j \in FilesIn(t) |-> j + 1]
  <2>1. FilesIn(t) \subseteq Nat /\ FilesIn(q) \subseteq Nat \ {0}  BY <1>1 DEF FilesIn
  <2>2. shift \in Bijection(FilesIn(t), FilesIn(q) \ {1})
    <3>1. shift \in [FilesIn(t) -> FilesIn(q) \ {1}]  BY <1>2, <2>1
    <3>2. \A a, b \in FilesIn(t) : shift[a] = shift[b] => a = b  BY <2>1
    <3>3. \A c \in FilesIn(q) \ {1} : \E a \in FilesIn(t) : shift[a] = c
      <4> SUFFICES ASSUME NEW c \in FilesIn(q) \ {1} PROVE \E a \in FilesIn(t) : shift[a] = c  OBVIOUS
      <4>1. c - 1 \in FilesIn(t) /\ shift[c - 1] = c  BY <1>2, <2>1
      <4> QED  BY <4>1
    <3> HIDE DEF shift
    <3> QED  BY <3>1, <3>2, <3>3 DEF Bijection, Injection, Surjection, IsInjective
  <2>3. ExistsBijection(FilesIn(t), FilesIn(q) \ {1})  BY <2>2 DEF ExistsBijection
  <2>4. IsFiniteSet(FilesIn(t))  BY <1>1, FilesFinite
  <2> QED  BY <2>3, <2>4, FS_Bijection
<1>6. IsFiniteSet(FilesIn(q)) /\ Cardinality(FilesIn(q)) \in Nat  BY FilesFinite
<1>7. Cardinality(FilesIn(q)) = Cardinality(FilesIn(t)) + (IF Head(q).kind = "file" THEN 1 ELSE 0)
  <2>1. CASE Head(q).kind = "file"
    <3>1. Cardinality(FilesIn(q) \ {1}) = Cardinality(FilesIn(q)) - 1  BY <1>4, <1>6, <2>1, FS_RemoveElement
    <3> QED  BY <1>5, <1>6, <2>1, <3>1
  <2>2. CASE Head(q).kind # "file"
    <3>1. FilesIn(q) \ {1} = FilesIn(q)  BY <1>4, <2>2
    <3>2. Cardinality(FilesIn(t)) = Cardinality(FilesIn(q))  BY <1>5, <3>1
    <3> QED  BY <1>6, <2>2, <3>2
  <2> QED  BY <2>1, <2>2
<1> QED  BY <1>2, <1>3, <1>4, <1>7 DEF t

-----------------------------------------------------------------------------
\* No client is connected at the start.
LEMMA InitInv == Init => IndInv
<1> SUFFICES ASSUME Init PROVE IndInv  OBVIOUS
<1>1. cl = "gone"  BY DEF Init
<1>2. TypeOK
  <2>1. << >> \in Seq(Lists \cup Sent) /\ << >> \in Seq(Lists)  OBVIOUS
  <2>2. disk \in [{"server", "client"} -> [Files -> Contents]]  BY DEF Init, Contents
  <2>3. 0 \in 0..MaxSessions  BY BoxAssumption
  <2> QED  BY <2>1, <2>2, <2>3 DEF Init, TypeOK
<1> QED  BY <1>1, <1>2 DEF IndInv, Order, Rounds, Counts, Coming, Found, FirstRoundSync

\* Types.
LEMMA TypeInv == TypeOK /\ [Next]_vars => TypeOK'
<1> SUFFICES ASSUME TypeOK, [Next]_vars PROVE TypeOK'  OBVIOUS
<1> USE DEF TypeOK, serverVars, clientVars
<1>a. Has("server") \subseteq Files /\ Has("client") \subseteq Files  BY DEF Has
<1>b. ASSUME NEW side \in {"server", "client"}, NEW F, Create(side, F)
      PROVE  disk' \in [{"server", "client"} -> [Files -> Contents]]
  BY <1>b DEF Create, Contents
<1>1. CASE Start
  <2>1. << >> \in Seq(Lists \cup Sent) /\ << >> \in Seq(Lists)  OBVIOUS
  <2>2. sessions' \in 0..MaxSessions  BY <1>1, BoxAssumption DEF Start
  <2> QED  BY <1>1, <2>1, <2>2 DEF Start
<1>2. CASE ServerTakeFiles  BY <1>2, <1>a DEF ServerTakeFiles, ServerTo, Counted
<1>3. CASE ServerSendList
  <2>1. PICK m \in Lists : m = List(server_files, FALSE)  BY DEF List, Lists
  <2>2. toClient' = Append(toClient, m)  BY <1>3, <2>1 DEF ServerSendList
  <2>3. toClient' \in Seq(Lists \cup Sent)  BY <2>2
  <2> QED  BY <1>3, <2>3 DEF ServerSendList, ServerTo
<1>4. CASE ServerReceiveList
  <2>1. Head(toServer) \in Lists /\ Tail(toServer) \in Seq(Lists)  BY <1>4 DEF ServerReceiveList, Gets
  <2>2. Head(toServer).files \in SUBSET Files /\ Head(toServer).slash \in BOOLEAN  BY <2>1 DEF Lists
  <2> QED  BY <1>4, <2>1, <2>2 DEF ServerReceiveList, ServerTo
<1>5. CASE ServerCompare
  <2>1. disk' \in [{"server", "client"} -> [Files -> Contents]]  BY <1>5, <1>b DEF ServerCompare
  <2> QED  BY <1>5, <2>1 DEF ServerCompare, ServerTo
<1>6. ASSUME NEW f \in Files, ServerSendFile(f) PROVE TypeOK'
  <2>1. File(f) \in Sent  BY DEF File, Sent
  <2>2. toClient' \in Seq(Lists \cup Sent)  BY <1>6, <2>1 DEF ServerSendFile
  <2> QED  BY <1>6, <2>2 DEF ServerSendFile
<1>7. CASE ServerEndRound  BY <1>7 DEF ServerEndRound, ServerTo
<1>8. CASE ServerDies
  <2>1. disk' \in [{"server", "client"} -> [Files -> Contents]]
    <3>1. CASE UNCHANGED disk  BY <3>1
    <3>2. CASE \E F \in SUBSET Files : Create("server", F)  BY <3>2, <1>b
    <3> QED  BY <1>8, <3>1, <3>2 DEF ServerDies
  <2> QED  BY <1>8, <2>1 DEF ServerDies
<1>18. CASE ServerReceiveShort
  <2>1. toServer' \in Seq(Lists)
    <3>1. CASE Gets(toServer, "list") /\ toServer' = Tail(toServer)  BY <3>1 DEF Gets
    <3>2. CASE UNCHANGED toServer  BY <3>2
    <3> QED  BY <1>18, <3>1, <3>2 DEF ServerReceiveShort
  <2> QED  BY <1>18, <2>1 DEF ServerReceiveShort, ServerTo
<1>19. CASE ClientLost
  <2>1. disk' \in [{"server", "client"} -> [Files -> Contents]]  BY <1>19, <1>b DEF ClientLost
  <2> QED  BY <1>19, <2>1 DEF ClientLost
<1>9. CASE ClientTakeFiles  BY <1>9, <1>a DEF ClientTakeFiles, ClientTo, Counted
<1>10. CASE ClientReceiveList
  <2>1. Head(toClient) \in Lists \cup Sent /\ Tail(toClient) \in Seq(Lists \cup Sent) /\ Head(toClient).kind = "list"
    BY <1>10 DEF ClientReceiveList, Gets
  <2>2. Head(toClient).files \in SUBSET Files  BY <2>1 DEF Lists, Sent
  <2> QED  BY <1>10, <2>1, <2>2 DEF ClientReceiveList, ClientTo
<1>11. CASE ClientSendList
  <2>1. List(sent, round > 0) \in Lists  BY DEF List, Lists
  <2>2. toServer' \in Seq(Lists)  BY <1>11, <2>1 DEF ClientSendList
  <2> QED  BY <1>11, <2>2 DEF ClientSendList, ClientTo
<1>12. CASE ClientCompare
  <2>1. disk' \in [{"server", "client"} -> [Files -> Contents]]  BY <1>12, <1>b DEF ClientCompare
  <2>2. expect' \in Nat
    <3>1. IsFiniteSet(client_files) /\ IsFiniteSet(Missing)
      BY BoxAssumption, FS_Subset DEF Missing
    <3>2. Cardinality(client_files) \in Nat /\ Cardinality(Missing) \in Nat  BY <3>1, FS_CardinalityType
    <3> QED  BY <1>12, <3>2 DEF ClientCompare
  <2> QED  BY <1>12, <2>1, <2>2 DEF ClientCompare, ClientTo
<1>13. CASE ClientReceiveFile
  <2>1. /\ Head(toClient) \in Lists \cup Sent /\ Tail(toClient) \in Seq(Lists \cup Sent)
        /\ Head(toClient).kind = "file"
    BY <1>13 DEF ClientReceiveFile, Gets
  <2>2. Head(toClient).name \in Files /\ Head(toClient).data \in Contents  BY <2>1 DEF Lists, Sent
  <2>3. disk' \in [{"server", "client"} -> [Files -> Contents]]  BY <1>13, <2>2 DEF ClientReceiveFile
  <2>4. expect' \in Nat  BY <1>13 DEF ClientReceiveFile
  <2> QED  BY <1>13, <2>1, <2>3, <2>4 DEF ClientReceiveFile
<1>14. CASE ClientMisreads  BY <1>14 DEF ClientMisreads, ClientTo
<1>15. CASE ClientEndRound  BY <1>15 DEF ClientEndRound, ClientTo
<1>16. CASE ClientKilled  BY <1>16 DEF ClientKilled
<1>17. CASE UNCHANGED vars  BY <1>17 DEF vars
<1> QED
  BY <1>1, <1>2, <1>3, <1>4, <1>5, <1>6, <1>7, <1>8, <1>9, <1>10, <1>11, <1>12, <1>13, <1>14, <1>15,
     <1>16, <1>17, <1>18, <1>19
  DEF Next, Server, Client

\* The two ends go through their rounds together.
LEMMA RoundsInv == TypeOK /\ ~cut /\ ~cut' /\ Rounds /\ Counts /\ Next => Rounds'
<1> SUFFICES ASSUME TypeOK, ~cut, ~cut', Rounds, Counts, Next PROVE Rounds'  OBVIOUS
<1> USE DEF Rounds, ServerFirst, ServerLater, Sent1, serverVars, clientVars, ServerTo, ClientTo
<1>a. /\ counter \in {0, 1} /\ round \in {0, 1} /\ toClient \in Seq(Messages) /\ toServer \in Seq(Lists)
      /\ srv \in {"gone", "scan", "send", "receive", "compare", "write"}
      /\ cl \in {"gone", "scan", "receive", "send", "compare", "read"}
  BY DEF TypeOK, Messages
<1>1. CASE Start  BY <1>1 DEF Start
<1>2. CASE ServerTakeFiles  BY <1>2, <1>a DEF ServerTakeFiles
<1>3. CASE ServerSendList
  <2>1. toClient = << >> => toClient' = <<List(server_files, FALSE)>>  BY <1>3 DEF ServerSendList
  <2> QED  BY <1>3, <1>a, <2>1 DEF ServerSendList
<1>4. CASE ServerReceiveList
  <2>1. /\ toServer # << >> /\ Head(toServer) = toServer[1]
        /\ Len(toServer) = 1 => Tail(toServer) = << >>
    BY <1>4, <1>a DEF ServerReceiveList, Gets
  <2>2. slash' = toServer[1].slash /\ toServer' = Tail(toServer)  BY <1>4, <2>1 DEF ServerReceiveList
  <2>3. CASE counter = 0 /\ cl # "gone"
    <3>1. /\ Sent1 /\ toClient = << >> /\ sizeof_server = server_files
          /\ Len(toServer) = 1 /\ toServer[1].slash = FALSE
      BY <1>4, <2>1, <2>3 DEF ServerReceiveList
    <3>2. toServer' = << >> /\ slash' = FALSE  BY <2>1, <2>2, <3>1
    <3> QED  BY <1>4, <2>3, <3>1, <3>2 DEF ServerReceiveList
  <2>4. CASE counter = 1 \/ cl = "gone"  BY <1>4, <1>a, <2>1, <2>4 DEF ServerReceiveList
  <2> QED  BY <1>a, <2>3, <2>4
<1>5. CASE ServerCompare  BY <1>5, <1>a DEF ServerCompare
<1>6. ASSUME NEW f \in Files, ServerSendFile(f) PROVE Rounds'
  BY <1>6, <1>a DEF ServerSendFile, File
<1>7. CASE ServerEndRound  BY <1>7, <1>a DEF ServerEndRound
<1>8. CASE ServerDies  BY <1>8 DEF ServerDies
<1>9. CASE ClientTakeFiles  BY <1>9, <1>a DEF ClientTakeFiles
<1>10. CASE ClientReceiveList  BY <1>10, <1>a DEF ClientReceiveList, Gets, List
<1>11. CASE ClientSendList
  <2>1. toServer = << >> => toServer' = <<List(sent, round > 0)>>  BY <1>11 DEF ClientSendList
  <2>2. ASSUME toServer = << >> PROVE Len(toServer') = 1 /\ (round = 0 => toServer'[1].slash = FALSE)
    <3>1. toServer'[1] = List(sent, round > 0) /\ Len(toServer') = 1  BY <2>1, <2>2
    <3>2. List(sent, FALSE).slash = FALSE  BY DEF List
    <3>3. ASSUME round = 0 PROVE toServer'[1].slash = FALSE
      <4>1. (round > 0) = FALSE  BY <3>3
      <4> QED  BY <3>1, <3>2, <4>1
    <3> QED  BY <3>1, <3>3
  <2> QED  BY <1>11, <1>a, <2>2 DEF ClientSendList
<1>12. CASE ClientCompare  BY <1>12, <1>a DEF ClientCompare
<1>13. CASE ClientReceiveFile  BY <1>13, <1>a DEF ClientReceiveFile, Gets
<1>14. CASE ClientMisreads  BY <1>14 DEF ClientMisreads
<1>15. CASE ClientEndRound
  <2>1. ASSUME round = 1 PROVE sizeof_server = {}
    <3>1. IsFiniteSet(client_files) /\ IsFiniteSet(sizeof_server)  BY BoxAssumption, FS_Subset DEF TypeOK
    <3>2. Cardinality(client_files) \in Nat /\ Cardinality(sizeof_server) \in Nat  BY <3>1, FS_CardinalityType
    <3>3. Cardinality(client_files) + Cardinality(sizeof_server) = 0  BY <1>15, <2>1 DEF Counts, ClientEndRound
    <3>4. Cardinality(sizeof_server) = 0  BY <3>2, <3>3
    <3> QED  BY <3>1, <3>4, FS_EmptySet
  <2> QED  BY <1>15, <1>a, <2>1 DEF ClientEndRound
<1>16. CASE ClientKilled  BY <1>16 DEF ClientKilled
<1>17. CASE ServerReceiveShort  BY <1>17 DEF ServerReceiveShort
<1>18. CASE ClientLost  BY <1>18 DEF ClientLost
<1> QED
  BY <1>1, <1>2, <1>3, <1>4, <1>5, <1>6, <1>7, <1>8, <1>9, <1>10, <1>11, <1>12, <1>13, <1>14, <1>15, <1>16,
     <1>17, <1>18
  DEF Next, Server, Client

\* All sets of files can be counted.
LEMMA Finite ==
    ASSUME NEW S \in SUBSET Files
    PROVE  IsFiniteSet(S) /\ Cardinality(S) \in Nat /\ (Cardinality(S) = 0 <=> S = {})
  BY BoxAssumption, FS_Subset, FS_CardinalityType, FS_EmptySet

\* The union counted in two ways.
LEMMA TwoWays ==
    ASSUME NEW S \in SUBSET Files, NEW T \in SUBSET Files
    PROVE  Cardinality(S) + Cardinality(T \ S) = Cardinality(T) + Cardinality(S \ T)
<1>1. IsFiniteSet(S) /\ IsFiniteSet(T)  BY Finite
<1>2. S \cap T \in SUBSET Files /\ T \cap S = S \cap T  OBVIOUS
<1>3. Cardinality(S \cap T) \in Nat /\ Cardinality(S) \in Nat /\ Cardinality(T) \in Nat  BY <1>2, Finite
<1>4. Cardinality(T \ S) = Cardinality(T) - Cardinality(S \cap T)  BY <1>1, <1>2, FS_Difference
<1>5. Cardinality(S \ T) = Cardinality(S) - Cardinality(S \cap T)  BY <1>1, FS_Difference
<1> QED  BY <1>3, <1>4, <1>5

\* What is sent is a message.
LEMMA ListMessage ==
    ASSUME NEW F \in SUBSET Files, NEW slashed \in BOOLEAN
    PROVE  List(F, slashed) \in Messages
<1>1. List(F, slashed) \in Lists  BY DEF List, Lists
<1> QED  BY <1>1 DEF Messages

\* So is a file, with what the server has of it.
LEMMA FileMessage == ASSUME TypeOK, NEW f \in Files PROVE File(f) \in Messages
<1>1. disk["server"][f] \in Contents  BY DEF TypeOK
<1>2. File(f) \in Sent  BY <1>1 DEF File, Sent
<1> QED  BY <1>2 DEF Messages

\* What the server has still to send is files.
LEMMA ToComeFiles == ASSUME TypeOK PROVE ToCome \in SUBSET Files
  BY DEF TypeOK, ToCome

\* The counts of files that are on their way, before and after a step of either end.
LEMMA CountsInv == TypeOK /\ ~cut /\ ~cut' /\ Rounds /\ Counts /\ Next => Counts'
<1> SUFFICES ASSUME TypeOK, ~cut, ~cut', Rounds, Counts, Next, cl' # "gone" PROVE Counts'  BY DEF Counts
<1> DEFINE n == Cardinality(FilesIn(toClient))
           k == Cardinality(ToCome)
<1>a. /\ counter \in {0, 1} /\ round \in {0, 1} /\ toClient \in Seq(Messages) /\ toServer \in Seq(Lists)
      /\ srv \in {"gone", "scan", "send", "receive", "compare", "write"}
      /\ cl \in {"gone", "scan", "receive", "send", "compare", "read"}
      /\ n \in Nat /\ k \in Nat /\ InFlight = n + k
  BY FilesFinite, ToComeFiles, Finite DEF TypeOK, Messages, InFlight
<1> HIDE DEF n, k
<1> USE DEF Counts, serverVars, clientVars, ServerTo, ClientTo
<1>b. ASSUME UNCHANGED <<cl, round, expect, client_files, sizeof_server>>,
             FilesIn(toClient)' = FilesIn(toClient), ToCome' = ToCome
      PROVE  Counts'
  BY <1>b DEF InFlight
<1>1. CASE Start  BY <1>1 DEF Start, FilesIn, ToCome
<1>2. CASE ServerTakeFiles
  <2>1. CASE counter = 0  BY <1>2, <2>1 DEF ServerTakeFiles, Rounds, ServerFirst
  <2>2. CASE counter = 1  BY <1>2, <1>b, <2>2 DEF ServerTakeFiles, ToCome, FilesIn
  <2> QED  BY <1>a, <2>1, <2>2
<1>3. CASE ServerSendList
  <2>1. PICK m \in Messages : m = List(server_files, FALSE) /\ m.kind = "list"
    <3>1. server_files \in SUBSET Files  BY DEF TypeOK
    <3>2. List(server_files, FALSE) \in Messages  BY <3>1, ListMessage
    <3>3. List(server_files, FALSE).kind = "list"  BY DEF List
    <3> QED  BY <3>2, <3>3
  <2>2. toClient' = Append(toClient, m)  BY <1>3, <2>1 DEF ServerSendList
  <2>3. FilesIn(toClient)' = FilesIn(toClient)
    BY <1>a, <2>1, <2>2, FilesAppend
  <2> QED  BY <1>b, <1>3, <2>3 DEF ServerSendList, ToCome
<1>4. CASE ServerReceiveList  BY <1>4, <1>b DEF ServerReceiveList, ToCome, FilesIn
<1>5. CASE ServerCompare
  <2>1. FilesIn(toClient)' = FilesIn(toClient)  BY <1>5 DEF ServerCompare, FilesIn
  <2>2. ToCome' = ToCome
    <3>1. CASE counter = 0
      <4>1. ToCome = server_files  BY <1>5, <3>1 DEF ServerCompare, ToCome
      <4>2. toSend' = server_files /\ counter' = 0 /\ srv' = "write"  BY <1>5, <3>1 DEF ServerCompare
      <4> QED  BY <4>1, <4>2 DEF ToCome
    <3>2. CASE counter = 1  BY <1>5, <3>2 DEF ServerCompare, ToCome
    <3> QED  BY <1>a, <3>1, <3>2
  <2> QED  BY <1>b, <1>5, <2>1, <2>2 DEF ServerCompare
<1>6. ASSUME NEW f \in Files, ServerSendFile(f) PROVE Counts'
  <2>1. counter = 0 /\ ToCome = toSend /\ ToCome' = toSend \ {f} /\ f \in toSend
    BY <1>6, <1>a DEF ServerSendFile, Rounds, ServerLater, ToCome
  <2>2. round = 0  BY <1>6, <1>a, <2>1 DEF ServerSendFile
  <2>3. Cardinality(ToCome') = k - 1
    BY <2>1, ToComeFiles, Finite, FS_RemoveElement DEF k
  <2>4. PICK m \in Messages : m = File(f) /\ m.kind = "file"
    <3>1. File(f) \in Messages  BY FileMessage
    <3>2. File(f).kind = "file"  BY DEF File
    <3> QED  BY <3>1, <3>2
  <2>5. toClient' = Append(toClient, m)  BY <1>6, <2>4 DEF ServerSendFile
  <2>6. Cardinality(FilesIn(toClient')) = n + 1  BY <1>a, <2>4, <2>5, FilesAppend DEF n
  <2>7. InFlight' = InFlight  BY <1>a, <2>3, <2>6 DEF InFlight, FilesIn
  <2> QED  BY <1>6, <2>2, <2>7 DEF ServerSendFile
<1>7. CASE ServerEndRound  BY <1>7, <1>a, <1>b DEF ServerEndRound, ToCome, FilesIn
<1>8. CASE ServerDies  BY <1>8 DEF ServerDies
<1>9. CASE ClientTakeFiles  BY <1>9 DEF ClientTakeFiles, ToCome, FilesIn
<1>10. CASE ClientReceiveList
  <2>1. toClient # << >> /\ Head(toClient).kind = "list" /\ toClient' = Tail(toClient) /\ cl = "receive"
    BY <1>10 DEF ClientReceiveList, Gets
  <2>2. CASE round = 0
    <3>1. counter = 0 /\ srv # "gone"  BY <1>a, <2>1, <2>2 DEF Rounds, ServerLater
    <3>2. toClient = <<List(server_files, FALSE)>> /\ srv = "receive"
      <4>1. ServerFirst /\ ~Sent1  BY <2>1, <2>2, <3>1 DEF Rounds, Sent1
      <4>2. srv = "receive"  BY <1>a, <2>1, <3>1, <4>1 DEF ServerFirst
      <4> QED  BY <2>1, <4>1, <4>2 DEF ServerFirst
    <3>3. toClient' = << >> /\ sizeof_server' = server_files  BY <1>10, <3>2 DEF ClientReceiveList, List
    <3>4. FilesIn(toClient)' = {} /\ ToCome' = server_files
      BY <1>10, <3>1, <3>2, <3>3 DEF ClientReceiveList, FilesIn, ToCome
    <3>5. Cardinality({}) = 0 /\ Cardinality(server_files) \in Nat  BY FS_EmptySet, Finite DEF TypeOK
    <3>6. InFlight' = 0 + Cardinality(server_files)
      <4>1. InFlight' = Cardinality(FilesIn(toClient)') + Cardinality(ToCome')  BY DEF InFlight
      <4> QED  BY <3>4, <3>5, <4>1
    <3>7. InFlight' = Cardinality(sizeof_server')  BY <3>3, <3>5, <3>6
    <3> QED  BY <1>10, <2>2, <3>7 DEF ClientReceiveList
  <2>3. CASE round = 1
    <3>1. FilesIn(toClient)' = {}  BY <1>a, <2>1, <2>3, FilesTail DEF FilesIn
    <3> QED  BY <1>10, <2>1, <2>3, <3>1 DEF ClientReceiveList, ToCome
  <2> QED  BY <1>a, <2>2, <2>3
<1>11. CASE ClientSendList  BY <1>11 DEF ClientSendList, ToCome, FilesIn, InFlight
<1>12. CASE ClientCompare
  <2>1. UNCHANGED <<InFlight, FilesIn(toClient), ToCome>>  BY <1>12 DEF ClientCompare, InFlight, FilesIn, ToCome
  <2>2. /\ Cardinality(client_files) + Cardinality(sizeof_server \ client_files)
             = Cardinality(sizeof_server) + Cardinality(client_files \ sizeof_server)
    BY TwoWays DEF TypeOK
  <2> QED  BY <1>12, <1>a, <2>1, <2>2 DEF ClientCompare, Missing
<1>13. CASE ClientReceiveFile
  <2>1. toClient # << >> /\ Head(toClient).kind = "file" /\ toClient' = Tail(toClient) /\ cl = "read"
    BY <1>13 DEF ClientReceiveFile, Gets
  <2>2. 1 \in FilesIn(toClient) /\ n = Cardinality(FilesIn(toClient')) + 1  BY <1>a, <2>1, FilesTail DEF n
  <2>3. round = 0  BY <1>a, <2>1, <2>2
  <2>4. toClient' \in Seq(Messages)  BY <1>a, <2>1
  <2>5. Cardinality(FilesIn(toClient')) \in Nat /\ ToCome' = ToCome
    BY <1>13, <2>4, FilesFinite DEF ClientReceiveFile, ToCome
  <2>6. InFlight' = InFlight - 1  BY <1>a, <2>2, <2>5 DEF InFlight, FilesIn, k
  <2>7. Cardinality(client_files \ sizeof_server) \in Nat  BY Finite DEF TypeOK
  <2> QED  BY <1>13, <1>a, <2>1, <2>3, <2>6, <2>7 DEF ClientReceiveFile
<1>14. CASE ClientMisreads  BY <1>14 DEF ClientMisreads
<1>15. CASE ClientEndRound
  <2>1. FilesIn(toClient) = {} /\ ToCome = {}
    <3>1. CASE round = 0
      <4>1. Cardinality(client_files \ sizeof_server) \in Nat  BY Finite DEF TypeOK
      <4>2. InFlight + Cardinality(client_files \ sizeof_server) = 0  BY <1>15, <3>1 DEF ClientEndRound
      <4>3. n = 0 /\ k = 0  BY <1>a, <4>1, <4>2
      <4> QED  BY <1>a, <4>3, FilesFinite, ToComeFiles, Finite, FS_EmptySet DEF n, k
    <3>2. CASE round = 1  BY <1>15, <3>2 DEF ClientEndRound
    <3> QED  BY <1>a, <3>1, <3>2
  <2> QED  BY <1>15, <2>1 DEF ClientEndRound, FilesIn, ToCome
<1>16. CASE ClientKilled  BY <1>16 DEF ClientKilled
<1>17. CASE ServerReceiveShort  BY <1>17 DEF ServerReceiveShort
<1>18. CASE ClientLost  BY <1>18 DEF ClientLost
<1> QED
  BY <1>1, <1>2, <1>3, <1>4, <1>5, <1>6, <1>7, <1>8, <1>9, <1>10, <1>11, <1>12, <1>13, <1>14, <1>15, <1>16,
     <1>17, <1>18
  DEF Next, Server, Client

\* What has not arrived is on its way, after a step of either end.
LEMMA ComingInv == TypeOK /\ ~cut /\ ~cut' /\ Rounds /\ Counts /\ Coming /\ Next => Coming'
<1> SUFFICES ASSUME TypeOK, ~cut, ~cut', Rounds, Counts, Coming, Next,
                    round' = 0, cl' \in {"send", "compare", "read"}
             PROVE  Coming'
  BY DEF Coming
<1> USE DEF serverVars, clientVars, ServerTo, ClientTo
<1>a. /\ counter \in {0, 1} /\ round \in {0, 1} /\ toClient \in Seq(Messages)
      /\ srv \in {"gone", "scan", "send", "receive", "compare", "write"}
      /\ cl \in {"gone", "scan", "receive", "send", "compare", "read"}
  BY DEF TypeOK, Messages
<1>b. ASSUME UNCHANGED <<cl, round, sizeof_server, toClient, disk>>, ToCome' = ToCome
      PROVE  Coming'
  BY <1>b DEF Coming, FilesIn
<1>c. ASSUME UNCHANGED cl PROVE cl \in {"send", "compare", "read"}  BY <1>c
<1>1. CASE Start  BY <1>1 DEF Start
<1>2. CASE ServerTakeFiles
  <2>1. counter = 1  BY <1>2, <1>a, <1>c DEF ServerTakeFiles, Rounds, ServerFirst
  <2> QED  BY <1>2, <1>b, <2>1 DEF ServerTakeFiles, ToCome
<1>3. CASE ServerSendList
  <2>1. counter = 1 /\ ToCome' = {} /\ ToCome = {}
    BY <1>3, <1>a, <1>c DEF ServerSendList, Rounds, ServerFirst, ToCome
  <2>2. server_files \in SUBSET Files  BY DEF TypeOK
  <2>3. List(server_files, FALSE) \in Messages  BY <2>2, ListMessage
  <2>4. List(server_files, FALSE).kind = "list"  BY DEF List
  <2>5. /\ FilesIn(toClient') = FilesIn(toClient)
        /\ \A j \in FilesIn(toClient) : toClient'[j] = toClient[j]
    BY <1>3, <1>a, <2>3, <2>4, FilesAppend DEF ServerSendList
  <2>6. UNCHANGED <<cl, round, sizeof_server, disk>>  BY <1>3 DEF ServerSendList
  <2>7. FilesIn(toClient)' = FilesIn(toClient)  BY <2>5 DEF FilesIn
  <2> QED  BY <2>1, <2>5, <2>6, <2>7 DEF Coming
<1>4. CASE ServerReceiveList  BY <1>4, <1>b DEF ServerReceiveList, ToCome
<1>5. CASE ServerCompare
  <2>1. cl # "gone" /\ round = 0 /\ srv = "compare"  BY <1>5, <1>c DEF ServerCompare
  <2>2. counter = 0  BY <1>a, <2>1 DEF Rounds, ServerLater
  <2>3. sizeof_server = server_files /\ slash = FALSE /\ toClient = << >>
    BY <2>1, <2>2 DEF Rounds, ServerFirst
  <2>4. ToCome = server_files /\ ToCome' = server_files
    BY <1>5, <2>1, <2>2 DEF ServerCompare, ToCome
  <2>5. FilesIn(toClient)' = {}  BY <1>5, <2>3 DEF ServerCompare, FilesIn
  <2> QED  BY <1>5, <2>3, <2>4, <2>5 DEF Coming, ServerCompare
<1>6. ASSUME NEW f \in Files, ServerSendFile(f) PROVE Coming'
  <2>1. counter = 0 /\ ToCome = toSend /\ ToCome' = toSend \ {f} /\ f \in toSend /\ cl # "gone"
    BY <1>6, <1>a, <1>c DEF ServerSendFile, Rounds, ServerLater, ToCome
  <2>2. f \in sizeof_server  BY <1>6, <2>1 DEF ServerSendFile, Rounds, ServerFirst
  <2>3. File(f) \in Messages  BY FileMessage
  <2>4. File(f).kind = "file" /\ File(f).name = f /\ File(f).data = disk["server"][f]  BY DEF File
  <2>5. /\ FilesIn(toClient') = FilesIn(toClient) \cup {Len(toClient) + 1}
        /\ \A j \in FilesIn(toClient) : toClient'[j] = toClient[j]
        /\ toClient'[Len(toClient) + 1] = File(f)
    BY <1>6, <1>a, <2>3, <2>4, FilesAppend DEF ServerSendFile
  <2>6. UNCHANGED <<cl, round, sizeof_server, disk>>  BY <1>6 DEF ServerSendFile
  <2>7. FilesIn(toClient)' = FilesIn(toClient')  BY DEF FilesIn
  <2>8. \A j \in FilesIn(toClient') :
           /\ toClient'[j].name \in sizeof_server
           /\ toClient'[j].data = disk["server"][toClient'[j].name]
    BY <1>c, <2>2, <2>4, <2>5, <2>6 DEF Coming
  <2>9. ASSUME NEW g \in sizeof_server
        PROVE  \/ g \in ToCome'
               \/ \E j \in FilesIn(toClient') : toClient'[j].name = g
               \/ cl = "read" /\ disk["client"][g] = disk["server"][g]
    <3>1. CASE g = f  BY <2>4, <2>5, <3>1
    <3>2. CASE g # f  BY <1>c, <2>1, <2>5, <2>6, <3>2 DEF Coming
    <3> QED  BY <3>1, <3>2
  <2> QED  BY <2>6, <2>7, <2>8, <2>9 DEF Coming
<1>7. CASE ServerEndRound  BY <1>7, <1>a, <1>b DEF ServerEndRound, ToCome
<1>8. CASE ServerDies  BY <1>8 DEF ServerDies
<1>9. CASE ClientTakeFiles  BY <1>9 DEF ClientTakeFiles
<1>10. CASE ClientReceiveList
  <2>1. toClient # << >> /\ toClient' = Tail(toClient) /\ cl = "receive" /\ round = 0
    BY <1>10 DEF ClientReceiveList, Gets
  <2>2. counter = 0 /\ ServerFirst /\ ~Sent1
    BY <1>a, <2>1 DEF Rounds, ServerLater, Sent1
  <2>3. srv = "receive"  BY <1>a, <2>1, <2>2 DEF ServerFirst, Rounds
  <2>4. toClient = <<List(server_files, FALSE)>>  BY <2>1, <2>2, <2>3 DEF ServerFirst
  <2>5. toClient' = << >> /\ sizeof_server' = server_files  BY <1>10, <2>4 DEF ClientReceiveList, List
  <2>6. FilesIn(toClient)' = {} /\ ToCome' = server_files
    BY <1>10, <2>2, <2>3, <2>5 DEF ClientReceiveList, FilesIn, ToCome
  <2> QED  BY <2>5, <2>6 DEF Coming
<1>11. CASE ClientSendList
  <2>1. UNCHANGED <<round, sizeof_server, toClient, disk, ToCome>> /\ cl = "send" /\ cl' = "compare"
    BY <1>11 DEF ClientSendList, ToCome
  <2> QED  BY <2>1 DEF Coming, FilesIn
<1>12. CASE ClientCompare
  <2>1. UNCHANGED <<round, sizeof_server, toClient, ToCome>> /\ cl = "compare" /\ cl' = "read"
    BY <1>12 DEF ClientCompare, ToCome
  <2>2. disk'["server"] = disk["server"]  BY <1>12 DEF ClientCompare, Create, TypeOK
  <2> QED  BY <2>1, <2>2 DEF Coming, FilesIn
<1>13. CASE ClientReceiveFile
  <2> DEFINE h == toClient[1].name
  <2>1. /\ toClient # << >> /\ Head(toClient).kind = "file" /\ toClient' = Tail(toClient) /\ cl = "read"
        /\ Head(toClient) = toClient[1] /\ UNCHANGED <<cl, round, sizeof_server, ToCome>>
    BY <1>13, <1>a DEF ClientReceiveFile, Gets, ToCome
  <2>2. /\ \A j : j \in FilesIn(toClient') <=> j \in Nat \ {0} /\ j + 1 \in FilesIn(toClient)
        /\ \A j \in FilesIn(toClient') : toClient'[j] = toClient[j + 1]
        /\ 1 \in FilesIn(toClient)
    BY <1>a, <2>1, FilesTail
  <2>3. h \in sizeof_server /\ toClient[1].data = disk["server"][h]  BY <2>1, <2>2 DEF Coming
  <2>4. h \in Files  BY <2>3 DEF TypeOK
  <2>5. disk' = [disk EXCEPT !["client"][h] = disk["server"][h]]
    BY <1>13, <2>1, <2>3 DEF ClientReceiveFile
  <2>6. disk'["server"] = disk["server"] /\ disk'["client"][h] = disk["server"][h]
        /\ \A f \in Files : f # h => disk'["client"][f] = disk["client"][f]
    BY <2>4, <2>5 DEF TypeOK
  <2>7. FilesIn(toClient)' = FilesIn(toClient')  BY DEF FilesIn
  <2>8. \A j \in FilesIn(toClient') :
           /\ toClient'[j].name \in sizeof_server
           /\ toClient'[j].data = disk["server"][toClient'[j].name]
    <3>1. \A i \in FilesIn(toClient) :
             toClient[i].name \in sizeof_server /\ toClient[i].data = disk["server"][toClient[i].name]
      BY <2>1 DEF Coming
    <3>2. \A j \in FilesIn(toClient') : j + 1 \in FilesIn(toClient) /\ toClient'[j] = toClient[j + 1]
      BY <2>2
    <3> QED  BY <3>1, <3>2
  <2>9. ASSUME NEW g \in sizeof_server
        PROVE  \/ g \in ToCome
               \/ \E j \in FilesIn(toClient') : toClient'[j].name = g
               \/ disk'["client"][g] = disk["server"][g]
    <3>1. CASE g = h  BY <2>6, <3>1
    <3>2. CASE g # h
      <4>1. g \in Files  BY DEF TypeOK
      <4>2. \/ g \in ToCome \/ disk["client"][g] = disk["server"][g]
            \/ \E i \in FilesIn(toClient) : toClient[i].name = g
        BY <2>1 DEF Coming
      <4>3. ASSUME NEW i \in FilesIn(toClient), toClient[i].name = g
            PROVE  \E j \in FilesIn(toClient') : toClient'[j].name = g
        <5>1. i \in Nat /\ i # 0 /\ i # 1  BY <1>a, <3>2, <4>3 DEF FilesIn
        <5>2. i - 1 \in Nat \ {0} /\ (i - 1) + 1 = i  BY <5>1
        <5>3. i - 1 \in FilesIn(toClient') /\ toClient'[i - 1] = toClient[i]  BY <2>2, <5>2
        <5> QED  BY <4>3, <5>3
      <4> QED  BY <2>6, <3>2, <4>1, <4>2, <4>3
    <3> QED  BY <3>1, <3>2
  <2> QED  BY <2>1, <2>6, <2>7, <2>8, <2>9 DEF Coming
<1>14. CASE ClientMisreads  BY <1>14 DEF ClientMisreads
<1>15. CASE ClientEndRound  BY <1>15 DEF ClientEndRound
<1>16. CASE ClientKilled  BY <1>16 DEF ClientKilled
<1>17. CASE ServerReceiveShort  BY <1>17 DEF ServerReceiveShort
<1>18. CASE ClientLost  BY <1>18 DEF ClientLost
<1> QED
  BY <1>1, <1>2, <1>3, <1>4, <1>5, <1>6, <1>7, <1>8, <1>9, <1>10, <1>11, <1>12, <1>13, <1>14, <1>15, <1>16,
     <1>17, <1>18
  DEF Next, Server, Client

\* The client has nothing that it has not counted.
LEMMA FoundInv == TypeOK /\ ~cut /\ ~cut' /\ Rounds /\ Counts /\ Coming /\ Found /\ Next => Found'
<1> SUFFICES ASSUME TypeOK, ~cut, ~cut', Rounds, Counts, Coming, Found, Next PROVE Found'  OBVIOUS
<1> USE DEF serverVars, clientVars, ServerTo, ClientTo
<1>a. round \in {0, 1} /\ toClient \in Seq(Messages)  BY DEF TypeOK, Messages
<1>b. ASSUME UNCHANGED <<cl, client_files, sizeof_server, disk>> PROVE Found'  BY <1>b DEF Found
<1>1. CASE Start  BY <1>1 DEF Start, Found
<1>2. CASE ServerTakeFiles  BY <1>2, <1>b DEF ServerTakeFiles
<1>3. CASE ServerSendList  BY <1>3, <1>b DEF ServerSendList
<1>4. CASE ServerReceiveList  BY <1>4, <1>b DEF ServerReceiveList
<1>5. CASE ServerCompare
  <2>1. disk'["client"] = disk["client"]  BY <1>5 DEF ServerCompare, Create, TypeOK
  <2> QED  BY <1>5, <2>1 DEF ServerCompare, Found
<1>6. ASSUME NEW f \in Files, ServerSendFile(f) PROVE Found'  BY <1>6, <1>b DEF ServerSendFile
<1>7. CASE ServerEndRound  BY <1>7, <1>b DEF ServerEndRound
<1>8. CASE ServerDies
  <2>1. cl = "gone" /\ UNCHANGED <<cl, client_files, sizeof_server>>  BY <1>8 DEF ServerDies
  <2> QED  BY <2>1 DEF Found
<1>9. CASE ClientTakeFiles  BY <1>9 DEF ClientTakeFiles, Found, Has
<1>10. CASE ClientReceiveList  BY <1>10 DEF ClientReceiveList, Found
<1>11. CASE ClientSendList  BY <1>11 DEF ClientSendList, Found
<1>12. CASE ClientCompare
  <2>1. disk'["client"] = [f \in Files |-> IF f \in Missing THEN "empty" ELSE disk["client"][f]]
    BY <1>12 DEF ClientCompare, Create, TypeOK
  <2>2. Missing \subseteq sizeof_server  BY DEF Missing
  <2> QED  BY <1>12, <2>1, <2>2 DEF ClientCompare, Found
<1>13. CASE ClientReceiveFile
  <2> DEFINE h == toClient[1].name
  <2>1. /\ toClient # << >> /\ Head(toClient).kind = "file" /\ cl = "read" /\ Head(toClient) = toClient[1]
        /\ UNCHANGED <<cl, client_files, sizeof_server>>
    BY <1>13, <1>a DEF ClientReceiveFile, Gets
  <2>2. 1 \in FilesIn(toClient)  BY <1>a, <2>1, FilesTail
  <2>3. round = 0  BY <1>a, <2>1, <2>2 DEF Counts
  <2>4. h \in sizeof_server  BY <2>1, <2>2, <2>3 DEF Coming
  <2>5. \A f \in Files : f # h => disk'["client"][f] = disk["client"][f]
    BY <1>13, <2>1 DEF ClientReceiveFile, TypeOK
  <2> QED  BY <2>1, <2>4, <2>5 DEF Found
<1>14. CASE ClientMisreads  BY <1>14 DEF ClientMisreads, Found
<1>15. CASE ClientEndRound  BY <1>15 DEF ClientEndRound, Found
<1>16. CASE ClientKilled  BY <1>16 DEF ClientKilled, Found
<1>17. CASE ServerReceiveShort  BY <1>17 DEF ServerReceiveShort
<1>18. CASE ClientLost  BY <1>18 DEF ClientLost
<1> QED
  BY <1>1, <1>2, <1>3, <1>4, <1>5, <1>6, <1>7, <1>8, <1>9, <1>10, <1>11, <1>12, <1>13, <1>14, <1>15, <1>16,
     <1>17, <1>18
  DEF Next, Server, Client

\* The client ends its round only when all has come, and the server then leaves its own list alone.
LEMMA FirstRoundSyncInv ==
    TypeOK /\ ~cut /\ ~cut' /\ Order /\ Next => FirstRoundSync'
<1> SUFFICES ASSUME TypeOK, ~cut, ~cut', Rounds, Counts, Coming, Found, FirstRoundSync, Next, cl' = "scan",
                    round' = 1
             PROVE  FirstRoundSync'
  BY DEF FirstRoundSync, Order
<1> USE DEF serverVars, clientVars, ServerTo, ClientTo
<1>a. counter \in {0, 1} /\ round \in {0, 1} /\ toClient \in Seq(Messages)  BY DEF TypeOK, Messages
<1>b. ASSUME UNCHANGED <<cl, round, sizeof_server, disk>> PROVE FirstRoundSync'  BY <1>b DEF FirstRoundSync
<1>1. CASE Start  BY <1>1 DEF Start
<1>2. CASE ServerTakeFiles  BY <1>2, <1>b DEF ServerTakeFiles
<1>3. CASE ServerSendList  BY <1>3, <1>b DEF ServerSendList
<1>4. CASE ServerReceiveList  BY <1>4, <1>b DEF ServerReceiveList
<1>5. CASE ServerCompare
  <2>1. cl = "scan" /\ round = 1 /\ srv = "compare" /\ UNCHANGED <<cl, round, sizeof_server>>
    BY <1>5 DEF ServerCompare
  <2>2. disk'["client"] = disk["client"]  BY <1>5 DEF ServerCompare, Create, TypeOK
  <2>3. ASSUME NEW f \in sizeof_server PROVE disk'["server"][f] = disk["server"][f]
    <3>1. counter = 0  BY <1>a, <2>1, <2>3 DEF Rounds, ServerLater
    <3>2. sizeof_server = server_files /\ slash = FALSE  BY <2>1, <3>1 DEF Rounds, ServerFirst
    <3>3. f \in Files  BY DEF TypeOK
    <3>4. Create("server", client_insides \ server_files)  BY <1>5, <3>2 DEF ServerCompare
    <3> QED  BY <3>2, <3>3, <3>4 DEF Create, TypeOK
  <2> QED  BY <2>1, <2>2, <2>3 DEF FirstRoundSync
<1>6. ASSUME NEW f \in Files, ServerSendFile(f) PROVE FirstRoundSync'  BY <1>6, <1>b DEF ServerSendFile
<1>7. CASE ServerEndRound  BY <1>7, <1>b DEF ServerEndRound
<1>8. CASE ServerDies  BY <1>8 DEF ServerDies, Rounds
<1>9. CASE ClientTakeFiles  BY <1>9 DEF ClientTakeFiles
<1>10. CASE ClientReceiveList  BY <1>10 DEF ClientReceiveList
<1>11. CASE ClientSendList  BY <1>11 DEF ClientSendList
<1>12. CASE ClientCompare  BY <1>12 DEF ClientCompare
<1>13. CASE ClientReceiveFile  BY <1>13 DEF ClientReceiveFile
<1>14. CASE ClientMisreads  BY <1>14 DEF ClientMisreads
<1>15. CASE ClientEndRound
  <2>1. cl = "read" /\ expect = 0 /\ UNCHANGED <<disk, sizeof_server>>  BY <1>15 DEF ClientEndRound
  <2>2. \A f \in Files : disk["client"][f] # "absent" => f \in client_files \cup sizeof_server
    BY <2>1 DEF Found
  <2>3. CASE round = 0
    <3>1. client_files \ sizeof_server \in SUBSET Files /\ ToCome \in SUBSET Files
      BY ToComeFiles DEF TypeOK
    <3>2. /\ Cardinality(client_files \ sizeof_server) \in Nat /\ Cardinality(ToCome) \in Nat
          /\ IsFiniteSet(FilesIn(toClient)) /\ Cardinality(FilesIn(toClient)) \in Nat
      BY <1>a, <3>1, Finite, FilesFinite
    <3>3. (Cardinality(FilesIn(toClient)) + Cardinality(ToCome)) + Cardinality(client_files \ sizeof_server) = 0
      BY <2>1, <2>3 DEF Counts, InFlight
    <3>4. /\ Cardinality(FilesIn(toClient)) = 0 /\ Cardinality(ToCome) = 0
          /\ Cardinality(client_files \ sizeof_server) = 0
      BY <3>2, <3>3
    <3>5. FilesIn(toClient) = {} /\ ToCome = {} /\ client_files \ sizeof_server = {}
      BY <3>1, <3>2, <3>4, Finite, FS_EmptySet
    <3>6. \A f \in sizeof_server : disk["client"][f] = disk["server"][f]
      BY <2>1, <2>3, <3>5 DEF Coming
    <3> QED  BY <2>1, <2>2, <3>5, <3>6 DEF FirstRoundSync
  <2>4. CASE round = 1
    <3>1. client_files \in SUBSET Files /\ sizeof_server \in SUBSET Files  BY DEF TypeOK
    <3>2. Cardinality(client_files) + Cardinality(sizeof_server) = 0  BY <2>1, <2>4 DEF Counts
    <3>3. Cardinality(client_files) \in Nat /\ Cardinality(sizeof_server) \in Nat  BY <3>1, Finite
    <3>4. Cardinality(client_files) = 0 /\ Cardinality(sizeof_server) = 0  BY <3>2, <3>3
    <3>5. client_files = {} /\ sizeof_server = {}  BY <3>1, <3>4, Finite
    <3> QED  BY <2>1, <2>2, <3>5 DEF FirstRoundSync
  <2> QED  BY <1>a, <2>3, <2>4
<1>16. CASE ClientKilled  BY <1>16 DEF ClientKilled
<1>17. CASE ServerReceiveShort  BY <1>17 DEF ServerReceiveShort
<1>18. CASE ClientLost  BY <1>18 DEF ClientLost
<1> QED
  BY <1>1, <1>2, <1>3, <1>4, <1>5, <1>6, <1>7, <1>8, <1>9, <1>10, <1>11, <1>12, <1>13, <1>14, <1>15, <1>16,
     <1>17, <1>18
  DEF Next, Server, Client

-----------------------------------------------------------------------------
\* A session begins in order.
LEMMA StartInv == Start => Order'
  BY DEF Start, Order, Rounds, ServerFirst, Counts, Coming, Found, FirstRoundSync

\* A session in which a recv() was short is given up until the next one.
LEMMA CutInv == cut /\ Next /\ ~Start => cut'
  BY DEF Next, Server, Client, serverVars, clientVars, ServerTakeFiles, ServerSendList, ServerReceiveList,
         ServerReceiveShort, ServerCompare, ServerSendFile, ServerEndRound, ServerDies, ClientTakeFiles,
         ClientReceiveList, ClientSendList, ClientCompare, ClientReceiveFile, ClientMisreads,
         ClientEndRound, ClientLost, ClientKilled

\* The invariant is inductive.
LEMMA Inductive == IndInv /\ [Next]_vars => IndInv'
<1>1. CASE Next
  <2> SUFFICES ASSUME IndInv PROVE IndInv'  BY <1>1
  <2>1. TypeOK /\ TypeOK'  BY <1>1, TypeInv DEF IndInv
  <2>2. CASE cut'  BY <2>1, <2>2 DEF IndInv
  <2>3. CASE Start  BY <2>1, <2>3, StartInv DEF IndInv
  <2>4. CASE ~cut' /\ ~Start
    <3>1. ~cut /\ Order  BY <1>1, <2>4, CutInv DEF IndInv
    <3>2. Rounds' /\ Counts'  BY <1>1, <2>1, <2>4, <3>1, RoundsInv, CountsInv DEF Order
    <3>3. Coming' /\ Found'  BY <1>1, <2>1, <2>4, <3>1, ComingInv, FoundInv DEF Order
    <3>4. FirstRoundSync'  BY <1>1, <2>1, <2>4, <3>1, FirstRoundSyncInv
    <3> QED  BY <2>1, <3>2, <3>3, <3>4 DEF IndInv, Order
  <2> QED  BY <2>2, <2>3, <2>4
<1>2. CASE UNCHANGED vars
  <2> SUFFICES ASSUME IndInv PROVE IndInv'  OBVIOUS
  <2> USE <1>2 DEF vars, serverVars, clientVars
  <2>1. TypeOK'  BY TypeInv DEF IndInv
  <2> SUFFICES ASSUME ~cut PROVE Order'  BY <2>1 DEF IndInv
  <2>2. Rounds'  BY DEF IndInv, Order, Rounds, ServerFirst, ServerLater, Sent1
  <2>3. ToCome' = ToCome /\ FilesIn(toClient)' = FilesIn(toClient)  BY DEF ToCome, FilesIn
  <2>4. Counts'  BY <2>3 DEF IndInv, Order, Counts, InFlight
  <2>5. Coming'  BY <2>3 DEF IndInv, Order, Coming
  <2>6. Found' /\ FirstRoundSync'  BY DEF IndInv, Order, Found, FirstRoundSync
  <2> QED  BY <2>2, <2>4, <2>5, <2>6 DEF Order
<1> QED  BY <1>1, <1>2

\* It holds in every state of every session.
THEOREM BibakIndInv == Spec => []IndInv
<1> QED  BY InitInv, Inductive, PTL DEF Spec

\* Every variable of server.c and client.c stays in its range.
THEOREM BibakTypeOK == Spec => []TypeOK
<1>1. IndInv => TypeOK  BY DEF IndInv
<1> QED  BY <1>1, BibakIndInv, PTL

\* A client that gets through the first round has what the server lists, with the
\* server's contents, and nothing else (compare() and read_from_serverx of the client,
\* compare() and write_to_client of the server).
THEOREM BibakFirstRoundSync == Spec => []FirstRoundSync
<1>1. IndInv => FirstRoundSync  BY DEF IndInv, Order, FirstRoundSync
<1> QED  BY <1>1, BibakIndInv, PTL

\* The client never takes a file for a list, and never has more files to come than it
\* counts on: read_from_serverx and the sizes of the lists have no marks on the stream.
THEOREM BibakInStep == Spec => []InStep
<1>1. ASSUME IndInv PROVE InStep
  <2>a. /\ counter \in {0, 1} /\ round \in {0, 1} /\ toClient \in Seq(Messages)
        /\ srv \in {"gone", "scan", "send", "receive", "compare", "write"}
    BY <1>1 DEF IndInv, TypeOK, Messages
  <2>1. ASSUME ~cut, cl = "receive", toClient # << >> PROVE Head(toClient).kind = "list"
    <3>1. Head(toClient) \in Messages  BY <2>1, <2>a
    <3>2. Head(toClient).kind \in {"list", "file"}  BY <3>1 DEF Messages, Lists, Sent
    <3>3. Head(toClient).kind # "file"
      <4>1. CASE round = 1
        <5>1. FilesIn(toClient) = {}  BY <1>1, <2>1, <4>1 DEF IndInv, Order, Counts
        <5> QED  BY <2>a, <2>1, <5>1, FilesTail
      <4>2. CASE round = 0
        <5>1. counter = 0 /\ ServerFirst /\ ~Sent1 /\ srv # "gone"
          BY <1>1, <2>a, <2>1, <4>2 DEF IndInv, Order, Rounds, ServerLater, Sent1
        <5>2. toClient = <<List(server_files, FALSE)>>  BY <2>a, <2>1, <5>1 DEF ServerFirst
        <5>3. Head(toClient) = List(server_files, FALSE)  BY <5>2
        <5> QED  BY <5>3 DEF List
      <4> QED  BY <2>a, <4>1, <4>2
    <3> QED  BY <3>2, <3>3
  <2>2. ASSUME ~cut, cl = "read", round = 0
        PROVE  Cardinality(FilesIn(toClient)) + Cardinality(ToCome) <= expect
    <3>1. TypeOK  BY <1>1 DEF IndInv
    <3>2. ToCome \in SUBSET Files /\ client_files \ sizeof_server \in SUBSET Files
      BY <3>1, ToComeFiles DEF TypeOK
    <3>3. /\ Cardinality(ToCome) \in Nat /\ Cardinality(client_files \ sizeof_server) \in Nat
          /\ Cardinality(FilesIn(toClient)) \in Nat
      BY <2>a, <3>2, Finite, FilesFinite
    <3>4. expect = (Cardinality(FilesIn(toClient)) + Cardinality(ToCome))
                     + Cardinality(client_files \ sizeof_server)
      BY <1>1, <2>2 DEF IndInv, Order, Counts, InFlight
    <3> QED  BY <3>3, <3>4
  <2> QED  BY <2>1, <2>2 DEF InStep
<1> QED  BY <1>1, BibakIndInv, PTL

-----------------------------------------------------------------------------
(* The first round of the first session. *)

Written == {"server", "client"}

\* What the client has listed has contents there, or is in the server's own list.
Theirs(S) == \A f \in S : f \in server_files \/ disk["client"][f] \in Written

\* Nothing is empty at first, and until both are through the first round what one side
\* has listed keeps its contents there.
FirstSession ==
    /\ sessions = 0 =>
          /\ srv = "gone" /\ cl = "gone"
          /\ \A side \in {"server", "client"}, f \in Files : disk[side][f] # "empty"
    /\ sessions = 1 /\ ~cut /\ cl # "gone" =>
          /\ counter = 0 =>
                /\ srv = "scan" => \A f \in Files : disk["server"][f] # "empty"
                /\ srv # "scan" => \A f \in server_files : disk["server"][f] \in Written
                /\ srv = "compare" => Theirs(client_insides)
                /\ toServer # << >> => Theirs(toServer[1].files)
          /\ round = 0 =>
                /\ cl = "scan" => \A f \in Files : disk["client"][f] # "empty"
                /\ cl \in {"receive", "send"} => \A f \in sent : disk["client"][f] \in Written
                /\ cl \in {"send", "compare", "read"} =>
                      \A f \in sizeof_server : disk["server"][f] \in Written

\* compare() of the server, before both are through: it empties only what the client has
\* listed and it has not.
LEMMA ServerComparesFirst ==
    ASSUME TypeOK, Order, ~cut, ServerCompare, cl # "gone", counter = 0 \/ round = 0
    PROVE  /\ counter = 0 /\ sizeof_server = server_files
           /\ disk'["client"] = disk["client"]
           /\ \A f \in Files : disk'["server"][f] # disk["server"][f] => f \in client_insides \ server_files
<1>1. counter \in {0, 1} /\ srv = "compare"  BY DEF TypeOK, ServerCompare, ServerTo
<1>2. counter = 0  BY <1>1 DEF Order, Rounds, ServerLater
<1>3. sizeof_server = server_files /\ slash = FALSE  BY <1>1, <1>2 DEF Order, Rounds, ServerFirst
<1>4. Create("server", client_insides \ server_files)  BY <1>3 DEF ServerCompare
<1> QED  BY <1>2, <1>3, <1>4 DEF Create, TypeOK

\* compare() of the client in its first round: it empties only what it does not have.
LEMMA ClientComparesFirst ==
    ASSUME TypeOK, Order, ~cut, ClientCompare, counter = 0 \/ round = 0
    PROVE  /\ round = 0 /\ disk'["server"] = disk["server"]
           /\ \A f \in Files : disk'["client"][f] # disk["client"][f] =>
                 f \in sizeof_server /\ disk["client"][f] = "absent"
<1>1. round \in {0, 1} /\ cl = "compare"  BY DEF TypeOK, ClientCompare, ClientTo
<1>2. round = 0
  <2>1. ASSUME counter = 0, round = 1 PROVE FALSE
    <3>1. ServerFirst /\ srv # "gone" /\ ~Sent1  BY <1>1, <2>1 DEF Order, Rounds, Sent1
    <3>2. srv \in {"scan", "send", "receive", "compare", "write"}  BY <3>1 DEF TypeOK
    <3> QED  BY <1>1, <2>1, <3>1, <3>2 DEF ServerFirst
  <2> QED  BY <1>1, <2>1
<1>3. \A f \in Missing : f \in sizeof_server /\ f \notin client_files  BY <1>2 DEF Missing
<1>4. \A f \in Files : disk["client"][f] # "absent" => f \in client_files  BY <1>1 DEF Order, Found
<1>5. Create("client", Missing)  BY DEF ClientCompare
<1> QED  BY <1>2, <1>3, <1>4, <1>5 DEF Create, TypeOK

\* A file that comes to the client is one of the server's list, with what the server has.
LEMMA ClientReceivesFirst ==
    ASSUME TypeOK, Order, ~cut, ClientReceiveFile
    PROVE  /\ round = 0 /\ cl = "read" /\ disk'["server"] = disk["server"]
           /\ \A f \in Files : disk'["client"][f] # disk["client"][f] =>
                 f \in sizeof_server /\ disk'["client"][f] = disk["server"][f]
<1>1. /\ toClient \in Seq(Messages) /\ toClient # << >> /\ Head(toClient).kind = "file" /\ cl = "read"
      /\ Head(toClient) = toClient[1] /\ round \in {0, 1}
  BY DEF ClientReceiveFile, Gets, TypeOK, Messages
<1>2. 1 \in FilesIn(toClient)  BY <1>1, FilesTail
<1>3. round = 0  BY <1>1, <1>2 DEF Order, Counts
<1>4. toClient[1].name \in sizeof_server /\ toClient[1].data = disk["server"][toClient[1].name]
  BY <1>1, <1>2, <1>3 DEF Order, Coming
<1>5. disk' = [disk EXCEPT !["client"][toClient[1].name] = disk["server"][toClient[1].name]]
  BY <1>1, <1>4 DEF ClientReceiveFile
<1>6. toClient[1].name \in Files  BY <1>4 DEF TypeOK
<1> QED  BY <1>1, <1>3, <1>4, <1>5, <1>6 DEF TypeOK

\* What is listed first keeps its contents, in every step.
LEMMA FirstSessionInv == IndInv /\ IndInv' /\ FirstSession /\ Next => FirstSession'
<1> SUFFICES ASSUME IndInv, IndInv', FirstSession, Next PROVE FirstSession'  OBVIOUS
<1> USE DEF serverVars, clientVars, ServerTo, ClientTo
<1>a. /\ TypeOK /\ TypeOK' /\ sessions \in Nat /\ counter \in {0, 1} /\ round \in {0, 1}
      /\ srv \in {"gone", "scan", "send", "receive", "compare", "write"}
      /\ cl \in {"gone", "scan", "receive", "send", "compare", "read"}
  BY BoxAssumption DEF IndInv, TypeOK
<1>b. \A f \in Files : /\ disk["server"][f] \in {"absent", "empty", "server", "client"}
                       /\ disk["client"][f] \in {"absent", "empty", "server", "client"}
  BY <1>a DEF TypeOK, Contents
<1>1. CASE Start
  <2>1. /\ sessions' = sessions + 1 /\ UNCHANGED disk /\ srv' = "scan" /\ cl' = "scan" /\ counter' = 0
        /\ round' = 0 /\ toServer' = << >>
    BY <1>1 DEF Start
  <2>2. sessions' # 0  BY <1>a, <2>1
  <2>3. ASSUME sessions' = 1 PROVE \A side \in {"server", "client"}, f \in Files : disk[side][f] # "empty"
    BY <1>a, <2>1, <2>3 DEF FirstSession
  <2> QED  BY <2>1, <2>2, <2>3 DEF FirstSession
<1>2. CASE ~Start /\ sessions = 0
  BY <1>2 DEF FirstSession, Next, Server, Client, ServerTakeFiles, ServerSendList, ServerReceiveList,
     ServerReceiveShort, ServerCompare, ServerSendFile, ServerEndRound, ServerDies, ClientTakeFiles,
     ClientReceiveList, ClientSendList, ClientCompare, ClientReceiveFile, ClientMisreads, ClientEndRound,
     ClientLost, ClientKilled
<1>d. ~Start => UNCHANGED sessions
  BY DEF Next, Server, Client, ServerTakeFiles, ServerSendList, ServerReceiveList,
     ServerReceiveShort, ServerCompare, ServerSendFile, ServerEndRound, ServerDies, ClientTakeFiles,
     ClientReceiveList, ClientSendList, ClientCompare, ClientReceiveFile, ClientMisreads, ClientEndRound,
     ClientLost, ClientKilled
<1>e. ~Start => (cut => cut')
  BY DEF Next, Server, Client, ServerTakeFiles, ServerSendList, ServerReceiveList,
     ServerReceiveShort, ServerCompare, ServerSendFile, ServerEndRound, ServerDies, ClientTakeFiles,
     ClientReceiveList, ClientSendList, ClientCompare, ClientReceiveFile, ClientMisreads, ClientEndRound,
     ClientLost, ClientKilled
<1>f. ~Start => (cl' # "gone" => cl # "gone")
  BY <1>a DEF Next, Server, Client, ServerTakeFiles, ServerSendList, ServerReceiveList,
     ServerReceiveShort, ServerCompare, ServerSendFile, ServerEndRound, ServerDies, ClientTakeFiles,
     ClientReceiveList, ClientSendList, ClientCompare, ClientReceiveFile, ClientMisreads, ClientEndRound,
     ClientLost, ClientKilled
<1>c. ~Start => UNCHANGED sessions /\ (cut => cut') /\ (cl' # "gone" => cl # "gone")
  BY <1>d, <1>e, <1>f
<1>3. CASE ~Start /\ sessions # 0
  <2>a. UNCHANGED sessions /\ sessions' # 0  BY <1>3, <1>c
  <2>b. CASE ~(sessions = 1 /\ ~cut' /\ cl' # "gone")  BY <2>a, <2>b DEF FirstSession
  <2>c. CASE sessions = 1 /\ ~cut' /\ cl' # "gone"
    <3>a. ~cut /\ cl # "gone" /\ Order /\ Order'  BY <1>3, <1>c, <2>c DEF IndInv
    <3> USE <2>a, <2>c, <3>a DEF FirstSession, Theirs
    <3>1. CASE ServerTakeFiles
      <4>1. server_files' \subseteq Has("server")  BY <3>1 DEF ServerTakeFiles, Counted
      <4>2. srv = "scan" /\ srv' = "send" /\ UNCHANGED <<disk, counter, toServer, cl, round, sent, sizeof_server>>
        BY <3>1 DEF ServerTakeFiles
      <4>3. counter = 0 => \A f \in server_files' : disk["server"][f] \in Written
        BY <1>b, <4>1, <4>2 DEF Has, Written
      <4>4. counter = 0 => toServer = << >>  BY <4>2 DEF Order, Rounds, ServerFirst
      <4> QED  BY <4>2, <4>3, <4>4
    <3>2. CASE ServerSendList  BY <3>2 DEF ServerSendList
    <3>3. CASE ServerReceiveList
      <4>1. Head(toServer) = toServer[1] /\ toServer # << >>
        BY <1>a, <3>3 DEF ServerReceiveList, Gets, TypeOK
      <4>2. counter = 0 => toServer' = << >>  BY <3>3 DEF ServerReceiveList, Order, Rounds, ServerFirst
      <4> QED  BY <3>3, <4>1, <4>2 DEF ServerReceiveList
    <3>4. CASE ServerCompare
      <4>1. CASE counter = 0 \/ round = 0
        <5>1. /\ counter = 0 /\ sizeof_server = server_files
              /\ disk'["client"] = disk["client"]
              /\ \A f \in Files :
                    disk'["server"][f] # disk["server"][f] => f \in client_insides \ server_files
          BY <1>a, <3>4, <4>1, ServerComparesFirst
        <5>2. \A f \in server_files : disk'["server"][f] = disk["server"][f]
          BY <1>a, <5>1 DEF TypeOK
        <5>3. toServer = << >>  BY <3>4, <5>1 DEF ServerCompare, Order, Rounds, ServerFirst
        <5> QED  BY <3>4, <5>1, <5>2, <5>3 DEF ServerCompare
      <4>2. CASE ~(counter = 0 \/ round = 0)  BY <3>4, <4>2 DEF ServerCompare
      <4> QED  BY <4>1, <4>2
    <3>5. ASSUME NEW f \in Files, ServerSendFile(f) PROVE FirstSession'  BY <3>5 DEF ServerSendFile
    <3>6. CASE ServerEndRound  BY <3>6 DEF ServerEndRound
    <3>7. CASE ServerDies  BY <3>7 DEF ServerDies
    <3>8. CASE ClientTakeFiles
      <4>1. sent' \subseteq Has("client")  BY <3>8 DEF ClientTakeFiles, Counted, Has
      <4>2. round = 0 => \A f \in sent' : disk["client"][f] \in Written
        BY <1>b, <3>8, <4>1 DEF ClientTakeFiles, Has, Written
      <4> QED  BY <3>8, <4>2 DEF ClientTakeFiles
    <3>9. CASE ClientReceiveList
      <4>1. CASE round = 0
        <5>1. counter = 0 /\ srv = "receive" /\ toClient = <<List(server_files, FALSE)>>
          <6>1. cl = "receive" /\ toClient # << >>  BY <3>9 DEF ClientReceiveList, Gets
          <6>2. counter = 0 /\ srv # "gone" /\ ServerFirst /\ ~Sent1
            BY <1>a, <4>1, <6>1 DEF Order, Rounds, ServerLater, Sent1
          <6>3. srv = "receive"  BY <1>a, <6>1, <6>2 DEF ServerFirst
          <6> QED  BY <6>1, <6>2, <6>3 DEF ServerFirst
        <5>2. sizeof_server' = server_files  BY <3>9, <5>1 DEF ClientReceiveList, List
        <5> QED  BY <3>9, <5>1, <5>2 DEF ClientReceiveList
      <4>2. CASE round = 1  BY <3>9, <4>2 DEF ClientReceiveList
      <4> QED  BY <1>a, <4>1, <4>2
    <3>10. CASE ClientSendList
      <4>1. ASSUME counter = 0 PROVE round = 0 /\ toServer' = <<List(sent, round > 0)>>
        <5>1. round = 0 /\ toServer = << >>
          <6>1. cl = "send" /\ srv # "gone" /\ ServerFirst /\ ~Sent1
            BY <3>10, <4>1 DEF ClientSendList, Order, Rounds, Sent1
          <6> QED  BY <1>a, <6>1 DEF ServerFirst
        <5>2. toServer' = Append(toServer, List(sent, round > 0))  BY <3>10 DEF ClientSendList
        <5> QED  BY <5>1, <5>2
      <4>2. counter = 0 => toServer'[1].files = sent  BY <4>1 DEF List
      <4>3. /\ cl = "send" /\ cl' = "compare"
            /\ UNCHANGED <<disk, counter, srv, server_files, client_insides, round, sizeof_server, sent>>
        BY <3>10 DEF ClientSendList
      <4> QED  BY <4>1, <4>2, <4>3
    <3>11. CASE ClientCompare
      <4>1. CASE counter = 0 \/ round = 0
        <5>1. /\ round = 0 /\ disk'["server"] = disk["server"]
              /\ \A f \in Files : disk'["client"][f] # disk["client"][f] =>
                    f \in sizeof_server /\ disk["client"][f] = "absent"
          BY <1>a, <3>11, <4>1, ClientComparesFirst
        <5>2. \A f \in Files : disk["client"][f] \in Written => disk'["client"][f] \in Written
          BY <5>1 DEF Written
        <5>3. client_insides \in SUBSET Files /\ (toServer # << >> => toServer[1].files \in SUBSET Files)
          <6>1. toServer # << >> => toServer[1] \in Lists  BY <1>a DEF TypeOK
          <6> QED  BY <1>a, <6>1 DEF TypeOK, Lists
        <5> QED  BY <3>11, <5>1, <5>2, <5>3 DEF ClientCompare
      <4>2. CASE ~(counter = 0 \/ round = 0)  BY <1>a, <3>11, <4>2 DEF ClientCompare
      <4> QED  BY <4>1, <4>2
    <3>12. CASE ClientReceiveFile
      <4>1. /\ round = 0 /\ cl = "read" /\ disk'["server"] = disk["server"]
            /\ \A f \in Files : disk'["client"][f] # disk["client"][f] =>
                  f \in sizeof_server /\ disk'["client"][f] = disk["server"][f]
        BY <1>a, <3>12, ClientReceivesFirst
      <4>2. \A f \in Files : disk["client"][f] \in Written => disk'["client"][f] \in Written
        BY <4>1
      <4>3. client_insides \in SUBSET Files /\ (toServer # << >> => toServer[1].files \in SUBSET Files)
        <5>1. toServer # << >> => toServer[1] \in Lists  BY <1>a DEF TypeOK
        <5> QED  BY <1>a, <5>1 DEF TypeOK, Lists
      <4> QED  BY <3>12, <4>1, <4>2, <4>3 DEF ClientReceiveFile
    <3>13. CASE ClientMisreads  BY <3>13 DEF ClientMisreads
    <3>14. CASE ClientEndRound  BY <3>14 DEF ClientEndRound
    <3>15. CASE ClientKilled \/ ClientLost  BY <3>15 DEF ClientKilled, ClientLost
    <3>16. CASE ServerReceiveShort  BY <3>16 DEF ServerReceiveShort
    <3> QED
      BY <1>3, <3>1, <3>2, <3>3, <3>4, <3>5, <3>6, <3>7, <3>8, <3>9, <3>10, <3>11, <3>12, <3>13, <3>14,
         <3>15, <3>16
      DEF Next, Server, Client
  <2> QED  BY <2>b, <2>c
<1> QED  BY <1>1, <1>2, <1>3

\* As long as one of the two is in its first round, no contents are lost to both: the two
\* compare() functions, the server's over lists that leave files out, and the transfer.
THEOREM BibakFirstRoundKeeps == Spec => FirstRoundKeeps
<1> DEFINE Undisturbed == sessions = 1 /\ (counter = 0 \/ round = 0) /\ cl # "gone" /\ ~cut'
           Keeps == \A f \in Files : Kept(f) => Kept(f)'
<1>1. Init => FirstSession  BY DEF Init, FirstSession
<1>2. IndInv /\ IndInv' /\ FirstSession /\ [Next]_vars => FirstSession'
  <2>1. CASE UNCHANGED vars  BY <2>1 DEF vars, serverVars, clientVars, FirstSession, Theirs
  <2> QED  BY <2>1, FirstSessionInv
<1>3. ASSUME IndInv, FirstSession, Next, Undisturbed PROVE Keeps
  <2> USE DEF serverVars, clientVars, ServerTo, ClientTo
  <2>a. TypeOK /\ cut \in BOOLEAN  BY <1>3 DEF IndInv, TypeOK
  <2>1. ASSUME UNCHANGED disk PROVE Keeps  BY <2>1 DEF Kept
  <2>2. CASE cut \/ Start  BY <1>3, <2>2, CutInv DEF Start
  <2>3. CASE ~cut /\ ~Start
    <3>a. Order  BY <1>3, <2>3 DEF IndInv
    <3>1. CASE ServerCompare
      <4>1. /\ counter = 0 /\ sizeof_server = server_files /\ disk'["client"] = disk["client"]
            /\ \A f \in Files : disk'["server"][f] # disk["server"][f] => f \in client_insides \ server_files
        BY <1>3, <2>a, <2>3, <3>a, <3>1, ServerComparesFirst
      <4>2. Theirs(client_insides)  BY <1>3, <2>3, <3>1, <4>1 DEF FirstSession, ServerCompare
      <4> QED  BY <4>1, <4>2 DEF Kept, Theirs, Written
    <3>2. CASE ClientCompare
      <4>1. /\ disk'["server"] = disk["server"]
            /\ \A f \in Files : disk'["client"][f] # disk["client"][f] => disk["client"][f] = "absent"
        BY <1>3, <2>a, <2>3, <3>a, <3>2, ClientComparesFirst
      <4> QED  BY <4>1 DEF Kept
    <3>3. CASE ClientReceiveFile
      <4>1. /\ round = 0 /\ cl = "read" /\ disk'["server"] = disk["server"]
            /\ \A f \in Files : disk'["client"][f] # disk["client"][f] =>
                  f \in sizeof_server /\ disk'["client"][f] = disk["server"][f]
        BY <2>a, <2>3, <3>a, <3>3, ClientReceivesFirst
      <4>2. \A f \in sizeof_server : disk["server"][f] \in Written  BY <1>3, <2>3, <4>1 DEF FirstSession
      <4> QED  BY <4>1, <4>2 DEF Kept, Written
    <3>4. CASE ~(ServerCompare \/ ClientCompare \/ ClientReceiveFile)
      <4>1. UNCHANGED disk
        BY <1>3, <2>3, <3>4
        DEF Next, Server, Client, ServerTakeFiles, ServerSendList, ServerReceiveList, ServerReceiveShort,
            ServerSendFile, ServerEndRound, ServerDies, ClientTakeFiles, ClientReceiveList, ClientSendList,
            ClientMisreads, ClientEndRound, ClientLost, ClientKilled
      <4> QED  BY <2>1, <4>1
    <3> QED  BY <3>1, <3>2, <3>3, <3>4
  <2> QED  BY <2>2, <2>3
<1>4. IndInv /\ FirstSession /\ [Next]_vars => [Undisturbed => Keeps]_vars  BY <1>3
<1> QED  BY <1>1, <1>2, <1>4, BibakIndInv, PTL DEF Spec, FirstRoundKeeps
=============================================================================
