-------------------------- MODULE DataChannelProofs --------------------------
(***************************************************************************)
(* Proofs about DataChannel, for any timers, retries, channels and bounds: *)
(* that nobody settles on a socket of an earlier transfer, that 226 is of  *)
(* this very channel, and what must have been lost, or overtaken, before a *)
(* handshake is given up.                                                  *)
(***************************************************************************)
EXTENDS DataChannel, TLAPS

InFlight == fresh \cup late

(* The addresses that exist by now.                                          *)
Known == {Nobody, Anyone} \cup [end : {"client", "server"}, id : 0..channel]

(* The client's socket: of this channel, or of the port of the user's choice.*)
OwnSocket ==
  /\ channel \in Nat
  /\ c_socket \in {Nobody, UserPort, Address("client", channel)}
  /\ c_socket = UserPort => mode = "ACTIVE"
  /\ c_ready => c_socket # Nobody

(* What the server has stored of the client is that socket.                  *)
Stored ==
  /\ active_udp_address \in {Nobody, c_socket}
  /\ passive_client_address \in {Nobody, c_socket}
  /\ s_peer \in {Nobody, c_socket}
  /\ s_phase = "idle" => s_peer = Nobody

(* What the client has settled on.                                           *)
Settled ==
  /\ c_peer \in {Nobody, Anyone, Server} \/ OnReusedPort
  /\ c_phase = "idle" => c_peer = Nobody
  /\ c_peer \in Known

(* A packet that the server's socket will receive is from this client; one   *)
(* that the client's socket will receive is from this server, if its port is *)
(* new.                                                                      *)
Routed ==
  \A p \in InFlight :
    /\ p.to \in Known /\ p.from \in Known
    /\ p.to = Server => p.from = c_socket
    /\ p.to = c_socket /\ c_socket \notin {Nobody, UserPort} => p.from = Server

Routes == OwnSocket /\ Stored /\ Settled /\ Routed

(* Data is accepted where the direction says, and from this channel.         *)
Accepted ==
  /\ direction \in Directions
  /\ c_phase \in {"send", "fin"} \/ s_phase \in {"recv", "linger"} => direction = "UPLOAD"
  /\ c_phase \in {"recv", "linger"} \/ s_phase \in {"send", "fin"} => direction = "DOWNLOAD"
  /\ accepted \in {0, channel} \/ (OnReusedPort /\ direction = "DOWNLOAD")

(* A server that is done, and a FIN-ACK on its way to it, mean that the data *)
(* has been accepted.                                                        *)
Concluded ==
  /\ s_phase \in {"linger", "ok"} => accepted # 0
  /\ reply = "226" => accepted # 0
  /\ \A p \in InFlight : p.kind = "FIN-ACK" /\ p.to = Server => accepted # 0

(* One transfer in a channel: before it starts nothing has been answered.    *)
OneTransfer ==
  c_ready /\ c_phase = "idle" => s_phase = "idle" /\ reply # "226" /\ accepted = 0

Outcome == Accepted /\ Concluded /\ OneTransfer

-----------------------------------------------------------------------------
(* Who sends what to whom.                                                   *)
FromClient(out) ==
  \A p \in out :
    /\ p.from = c_socket /\ p.to \in Known
    /\ p.to \in {Nobody, Anyone, Server} \/ OnReusedPort
FromServer(out) == \A p \in out : p.from = Server /\ p.to \in {Nobody, c_socket}
Adds(out) == InFlight' \subseteq InFlight \cup out

(* The kinds of address differ, and each end's addresses exist.              *)
LEMMA Distinct ==
  ASSUME OwnSocket
  PROVE  /\ Server \notin {Nobody, Anyone, UserPort, c_socket}
         /\ c_socket \in Known /\ Server \in Known
         /\ c_socket # Anyone
         /\ c_socket \notin {Nobody, UserPort} => c_socket \notin {Nobody, Anyone, Server}
  BY DEF OwnSocket, Server, Nobody, Anyone, UserPort, Address, Known

(* Packets of either end leave every packet under way where it belongs.      *)
LEMMA Sending ==
  ASSUME OwnSocket, Routed, UNCHANGED setup_vars,
         NEW out, FromClient(out) \/ FromServer(out), Adds(out)
  PROVE  Routed'
  <1>1. Known' = Known /\ Server' = Server /\ c_socket' = c_socket
    BY DEF setup_vars, Known, Server
  <1>2. ASSUME NEW p \in out
        PROVE  /\ p.to \in Known /\ p.from \in Known
               /\ p.to = Server => p.from = c_socket
               /\ p.to = c_socket /\ c_socket \notin {Nobody, UserPort} => p.from = Server
    BY <1>2, Distinct DEF FromClient, FromServer, OnReusedPort, Known
  <1> QED
    BY <1>1, <1>2 DEF Routed, Adds

(* A step of the client that sends out and settles on a peer.                *)
LEMMA ClientStep ==
  ASSUME Routes, ClientOnly, c_ready' => c_ready,
         NEW out, FromClient(out), Adds(out),
         c_peer' \in {Nobody, Anyone, Server, c_peer} \/ OnReusedPort,
         c_peer' \in Known, c_phase' = "idle" => c_peer' = Nobody
  PROVE  Routes'
  <1>1. UNCHANGED setup_vars
    BY DEF ClientOnly
  <1>2. OwnSocket'
    BY <1>1 DEF setup_vars, Routes, OwnSocket
  <1>3. Stored'
    BY <1>1 DEF setup_vars, server_setup, server_vars, ClientOnly, Routes, Stored
  <1>4. Settled'
    BY <1>1 DEF setup_vars, Routes, Settled, Known, Server, OnReusedPort
  <1> QED
    BY <1>1, <1>2, <1>3, <1>4, Sending DEF Routes

(* A step of the server that sends out and settles on a peer.                *)
LEMMA ServerSide ==
  ASSUME Routes, ServerOnly,
         NEW out, FromServer(out), Adds(out),
         active_udp_address' = active_udp_address,
         passive_client_address' \in {passive_client_address, c_socket},
         s_peer' \in {Nobody, c_socket}, s_phase' = "idle" => s_peer' = Nobody
  PROVE  Routes'
  <1>1. UNCHANGED setup_vars /\ UNCHANGED <<c_ready, client_vars>>
    BY DEF ServerOnly
  <1>2. OwnSocket'
    BY <1>1 DEF setup_vars, Routes, OwnSocket
  <1>3. Stored'
    BY <1>1 DEF setup_vars, Routes, Stored
  <1>4. Settled'
    BY <1>1 DEF setup_vars, client_vars, Routes, Settled, Known, Server, OnReusedPort
  <1> QED
    BY <1>1, <1>2, <1>3, <1>4, Sending DEF Routes

(* What Sends and Takes do to the packets under way.                         *)
LEMMA Moves ==
  ASSUME NEW out
  PROVE  /\ Sends(out) => Adds(out)
         /\ \A p \in InFlight : Takes(p, out) => Adds(out)
         /\ UNCHANGED network => Adds({})
  BY DEF Adds, Sends, Takes, InFlight, network

(* Each step of the client's worker keeps to the routes.                     *)
LEMMA ClientRoutes == Routes /\ Client => Routes'
  <1> SUFFICES ASSUME Routes, Client PROVE Routes'
    OBVIOUS
  <1> USE DEF ClientIn
  <1>s. Server \in Known /\ Nobody \in Known /\ Anyone \in Known /\ OwnSocket /\ Settled /\ Routed
    BY Distinct DEF Routes, Known
  <1>n. FromClient({})
    BY DEF FromClient
  <1>k. ASSUME NEW kind, NEW peer \in Known, peer \in {Nobody, Anyone, Server} \/ OnReusedPort
        PROVE  FromClient({Packet(kind, c_socket, peer)})
    BY <1>k DEF FromClient, Packet
  <1>d. ASSUME NEW peer \in Known, peer \in {Nobody, Anyone, Server} \/ OnReusedPort
        PROVE  FromClient(ClientSends(peer))
    BY <1>k, <1>n, <1>d DEF ClientSends
  <1>1. CASE ClientOpens
    <2>1. CASE ClientIn("syn", Nobody, 1) /\ Sends({Packet("SYN", c_socket, Server)})
      BY <1>1, <1>s, <1>k, <2>1, Moves, ClientStep DEF ClientOpens
    <2>2. CASE ClientIn("await", Nobody, 0) /\ UNCHANGED network
      BY <1>1, <1>s, <1>n, <2>2, Moves, ClientStep DEF ClientOpens
    <2>3. CASE ClientIn("recv", Anyone, 1) /\ UNCHANGED network
      BY <1>1, <1>s, <1>n, <2>3, Moves, ClientStep DEF ClientOpens
    <2> QED
      BY <1>1, <2>1, <2>2, <2>3 DEF ClientOpens
  <1>2. CASE ClientRetriesSyn
    BY <1>2, <1>s, <1>k, <1>n, Moves, ClientStep DEF ClientRetriesSyn
  <1>3. CASE ClientAwaitTimeout
    BY <1>3, <1>s, <1>n, Moves, ClientStep DEF ClientAwaitTimeout
  <1>4. CASE ClientResends
    <2> DEFINE again == Packet(IF c_phase = "send" THEN "DATA" ELSE "FIN", c_socket, c_peer)
    <2>1. FromClient({again}) /\ (c_peer \in {Nobody, Anyone, Server} \/ OnReusedPort)
      BY <1>s, <1>k DEF Settled
    <2>2. c_peer' = c_peer /\ c_phase' # "idle" /\ (Sends({again}) \/ UNCHANGED network)
          /\ ClientOnly /\ c_ready' = c_ready
      BY <1>4 DEF ClientResends
    <2> HIDE DEF again
    <2> QED
      BY <1>s, <1>n, <2>1, <2>2, Moves, ClientStep DEF Settled
  <1>5. CASE ClientRecvTimeout
    BY <1>5, <1>s, <1>n, Moves, ClientStep DEF ClientRecvTimeout, Settled
  <1>6. CASE ClientCancelled
    BY <1>6, <1>s, <1>n, Moves, ClientStep DEF ClientCancelled, Settled
  <1>7. CASE ClientEnds
    BY <1>7, <1>s, <1>n, Moves, ClientStep DEF ClientEnds
  <1>8. ASSUME NEW p \in InFlight,
               \/ ClientReceivesSynAck(p) \/ ClientReceivesSyn(p) \/ ClientReceivesAck(p)
               \/ ClientReceivesData(p) \/ ClientReceivesFin(p)
        PROVE  Routes'
    <2>1. /\ p.to \in Known /\ p.from \in Known
          /\ c_ready /\ p.to = c_socket => p.from \in {Nobody, Anyone, Server} \/ OnReusedPort
      BY <1>s DEF Routed, OwnSocket, OnReusedPort
    <2>2. CASE ClientReceivesSynAck(p)
      BY <2>2, <1>s, <1>d, Moves, ClientStep
         DEF ClientReceivesSynAck, ClientWantsSynAck, ClientData
    <2>3. CASE ClientReceivesSyn(p)
      <3>1. c_ready /\ p.to = c_socket
        BY <2>3 DEF ClientReceivesSyn, ClientWantsSyn, ClientGets
      <3>2. FromClient({Packet("SYN-ACK", c_socket, p.from)} \cup ClientSends(p.from))
        BY <2>1, <3>1, <1>k, <1>d DEF FromClient
      <3> QED
        BY <2>3, <2>1, <3>1, <3>2, Moves, ClientStep DEF ClientReceivesSyn, ClientData
    <2>4. CASE ClientReceivesAck(p)
      <3>1. FromClient({Packet("FIN", c_socket, c_peer)})
        BY <1>s, <1>k DEF Settled
      <3> QED
        BY <2>4, <3>1, <1>n, <1>s, Moves, ClientStep DEF ClientReceivesAck, Settled
    <2>5. CASE ClientReceivesData(p)
      <3>1. c_ready /\ p.to = c_socket
        BY <2>5 DEF ClientReceivesData, ClientWantsData, ClientGets
      <3>2. FromClient({Packet("ACK", c_socket, p.from)})
        BY <2>1, <3>1, <1>k
      <3> QED
        BY <2>5, <3>2, <1>s, Moves, ClientStep DEF ClientReceivesData, Settled
    <2>6. CASE ClientReceivesFin(p)
      <3>1. c_ready /\ p.to = c_socket
        BY <2>6 DEF ClientReceivesFin, ClientWantsFin, ClientGets
      <3>2. FromClient({Packet("FIN-ACK", c_socket, p.from)})
        BY <2>1, <3>1, <1>k
      <3> QED
        BY <2>6, <2>1, <3>1, <3>2, Moves, ClientStep DEF ClientReceivesFin
    <2> QED
      BY <1>8, <2>2, <2>3, <2>4, <2>5, <2>6
  <1> QED
    BY <1>1, <1>2, <1>3, <1>4, <1>5, <1>6, <1>7, <1>8 DEF Client, InFlight

(* Each step of the server's worker keeps to the routes.                     *)
LEMMA ServerRoutes == Routes /\ ServerStep => Routes'
  <1> SUFFICES ASSUME Routes, ServerStep PROVE Routes'
    OBVIOUS
  <1> USE DEF ServerIn
  <1>s. /\ active_udp_address \in {Nobody, c_socket}
        /\ passive_client_address \in {Nobody, c_socket} /\ s_peer \in {Nobody, c_socket}
    BY DEF Routes, Stored
  <1>n. FromServer({})
    BY DEF FromServer
  <1>k. ASSUME NEW kind, NEW peer \in {Nobody, c_socket}
        PROVE  FromServer({Packet(kind, Server, peer)})
    BY DEF FromServer, Packet
  <1>d. ASSUME NEW peer \in {Nobody, c_socket} PROVE FromServer(ServerSends(peer))
    BY <1>k, <1>n DEF ServerSends
  <1>u. SetupKept => /\ active_udp_address' = active_udp_address
                     /\ passive_client_address' = passive_client_address
    BY DEF SetupKept, server_setup
  <1>1. CASE ServerOpens
    <2> DEFINE syn == Packet("SYN", Server, active_udp_address)
    <2>1. FromServer({syn})
      BY <1>s, <1>k
    <2>2. ServerOnly /\ SetupKept
      BY <1>1 DEF ServerOpens
    <2>3. \/ UNCHANGED network /\ s_peer' = Nobody
          \/ Sends(ServerSends(passive_client_address)) /\ s_peer' = passive_client_address
          \/ Sends(ServerSends(active_udp_address)) /\ s_peer' = active_udp_address
          \/ Sends({syn}) /\ s_peer' = active_udp_address
      BY <1>1 DEF ServerOpens, ServerData
    <2>4. s_phase' # "idle"
      BY <1>1 DEF ServerOpens, ServerData
    <2> HIDE DEF syn
    <2> QED
      BY <1>s, <1>n, <1>d, <1>u, <2>1, <2>2, <2>3, <2>4, Moves, ServerSide
  <1>2. CASE DiscoverTimeout
    BY <1>2, <1>n, <1>u, Moves, ServerSide DEF DiscoverTimeout
  <1>3. CASE ServerRetriesSyn
    <2>1. FromServer(NextSyn)
      BY <1>s, <1>n, <1>k DEF NextSyn
    <2> QED
      BY <1>3, <1>s, <1>u, <2>1, Moves, ServerSide DEF ServerRetriesSyn, AttemptFails
  <1>4. CASE ServerResends
    <2> DEFINE again == Packet(IF s_phase = "send" THEN "DATA" ELSE "FIN", Server, s_peer)
    <2>1. FromServer({again})
      BY <1>s, <1>k
    <2>2. s_peer' = s_peer /\ s_phase' # "idle" /\ (Sends({again}) \/ UNCHANGED network)
          /\ ServerOnly /\ SetupKept
      BY <1>4 DEF ServerResends
    <2> HIDE DEF again
    <2> QED
      BY <1>s, <1>n, <1>u, <2>1, <2>2, Moves, ServerSide
  <1>5. CASE ServerRecvTimeout
    BY <1>5, <1>s, <1>n, <1>u, Moves, ServerSide DEF ServerRecvTimeout
  <1>6. CASE ServerCancelled
    BY <1>6, <1>s, <1>n, <1>u, Moves, ServerSide DEF ServerCancelled
  <1>7. CASE ServerFinishes
    BY <1>7, <1>n, <1>u, Moves, ServerSide DEF ServerFinishes
  <1>8. ASSUME NEW p \in InFlight,
               \/ ServerDiscovers(p) \/ ServerReceivesSynAck(p) \/ ServerAnswersSynAgain(p)
               \/ ServerReceivesAck(p) \/ ServerReceivesData(p) \/ ServerReceivesFin(p)
        PROVE  Routes'
    <2>1. p.to = Server => p.from = c_socket
      BY DEF Routes, Routed
    <2>2. CASE ServerDiscovers(p)
      <3>1. p.from = c_socket
        BY <2>1, <2>2 DEF ServerDiscovers, ServerWantsSyn, ServerGets
      <3>2. FromServer({SynAck(p.from)} \cup ServerSends(p.from))
        BY <3>1, <1>k, <1>d DEF FromServer, SynAck
      <3> QED
        BY <2>2, <3>1, <3>2, <1>n, Moves, ServerSide DEF ServerDiscovers, ServerData
    <2>3. CASE ServerReceivesSynAck(p)
      <3>1. FromServer(NextSyn)
        BY <1>s, <1>n, <1>k DEF NextSyn
      <3> QED
        BY <2>3, <3>1, <1>s, <1>n, <1>u, Moves, ServerSide
           DEF ServerReceivesSynAck, ServerData, AttemptFails
    <2>4. CASE ServerAnswersSynAgain(p)
      BY <2>4, <1>s, <1>k, <1>u, Moves, ServerSide
         DEF ServerAnswersSynAgain, ServerWantsSynAgain, SynAck
    <2>5. CASE ServerReceivesAck(p)
      BY <2>5, <1>s, <1>k, <1>n, <1>u, Moves, ServerSide DEF ServerReceivesAck
    <2>6. CASE ServerReceivesData(p)
      BY <2>6, <1>s, <1>k, <1>u, Moves, ServerSide DEF ServerReceivesData
    <2>7. CASE ServerReceivesFin(p)
      BY <2>7, <1>s, <1>k, <1>u, Moves, ServerSide DEF ServerReceivesFin
    <2> QED
      BY <1>8, <2>2, <2>3, <2>4, <2>5, <2>6, <2>7
  <1> QED
    BY <1>1, <1>2, <1>3, <1>4, <1>5, <1>6, <1>7, <1>8 DEF ServerStep, InFlight

(* PASV and PORT begin a channel in which no old packet can arrive, except   *)
(* on the client's own port; the other commands change no address.           *)
LEMMA UserRoutes == Routes /\ User => Routes'
  <1> SUFFICES ASSUME Routes, User PROVE Routes'
    OBVIOUS
  <1>1. ASSUME NEW m \in Modes, NEW address \in {UserPort, Address("client", channel + 1)},
               address = UserPort => m = "ACTIVE", Configure(m, address)
        PROVE  Routes'
    <2>1. /\ channel' = channel + 1 /\ mode' = m /\ c_socket' = address
          /\ c_ready' = TRUE /\ active_udp_address' \in {Nobody, address}
          /\ passive_client_address' = Nobody
          /\ c_phase' = "idle" /\ s_phase' = "idle" /\ c_peer' = Nobody /\ s_peer' = Nobody
      BY <1>1 DEF Configure, client_vars, server_vars, Routes, Stored, Settled
    <2>2. channel \in Nat /\ address \notin {Nobody, Anyone} /\ address # Server'
      BY DEF Routes, OwnSocket, Address, Nobody, Anyone, UserPort, Server
    <2>3. OwnSocket'
      BY <1>1, <2>1, <2>2 DEF OwnSocket
    <2>4. Stored'
      BY <2>1 DEF Stored
    <2>5. Settled'
      BY <2>1 DEF Settled, Known
    <2>6. InFlight' = {p \in InFlight : p.to = address}
      BY <1>1 DEF Configure, ForOpenSockets, InFlight
    <2>7. Known \subseteq Known'
      BY <2>1, <2>2 DEF Known
    <2>8. Address("client", channel + 1) \notin Known
      BY <2>2 DEF Known, Address, Nobody, Anyone
    <2>9. Routed'
      <3> SUFFICES ASSUME NEW p \in InFlight'
                   PROVE  /\ p.to \in Known' /\ p.from \in Known'
                          /\ p.to # Server' /\ c_socket' = UserPort
        BY DEF Routed
      <3>1. p \in InFlight /\ p.to = address /\ p.to \in Known /\ p.from \in Known
        BY <2>6 DEF Routes, Routed
      <3> QED
        BY <3>1, <2>1, <2>2, <2>7, <2>8
    <2> QED
      BY <2>3, <2>4, <2>5, <2>9 DEF Routes
  <1>2. ASSUME NEW d \in Directions, Begin(d) PROVE Routes'
    BY <1>2 DEF Begin, ClientIn, ServerIn, server_setup, network, Routes, OwnSocket, Stored,
                Settled, Routed, OnReusedPort, Known, Server, InFlight
  <1>3. CASE SendAbort
    BY <1>3 DEF SendAbort, setup_vars, client_vars, server_vars, server_setup, network, Routes,
                OwnSocket, Stored, Settled, Routed, OnReusedPort, Known, Server, InFlight
  <1>4. CASE HandleAbort
    BY <1>4 DEF HandleAbort, setup_vars, client_vars, server_vars, server_setup, network, Routes,
                OwnSocket, Stored, Settled, Routed, OnReusedPort, Known, Server, InFlight
  <1>5. ASSUME NEW m \in Modes, NEW own \in BOOLEAN,
               Configure(m, IF own /\ m = "ACTIVE" THEN UserPort
                                                   ELSE Address("client", channel + 1))
        PROVE  Routes'
    <2>1. CASE own /\ m = "ACTIVE"
      BY <1>5, <2>1, <1>1
    <2>2. CASE ~(own /\ m = "ACTIVE")
      <3>1. channel \in Nat /\ Address("client", channel + 1) # UserPort
        BY DEF Routes, OwnSocket, Address, UserPort
      <3> QED
        BY <1>5, <2>2, <3>1, <1>1
    <2> QED
      BY <2>1, <2>2
  <1> QED
    BY <1>2, <1>3, <1>4, <1>5 DEF User

(* Loss, copies, skipped packets and time add nobody.                        *)
LEMMA OtherRoutes == Routes /\ (Network \/ Tick \/ UNCHANGED vars) => Routes'
  <1> SUFFICES ASSUME Routes, Network \/ Tick \/ UNCHANGED vars PROVE Routes'
    OBVIOUS
  <1>1. /\ UNCHANGED <<channel, mode, c_socket, c_ready, active_udp_address>>
        /\ UNCHANGED <<passive_client_address, c_phase, c_peer, s_phase, s_peer>>
        /\ InFlight' \subseteq InFlight
    BY DEF Network, Lose, Duplicate, Discard, NetworkOnly, Tick, vars, setup_vars, server_setup,
           client_vars, server_vars, network, InFlight
  <1> QED
    BY <1>1 DEF Routes, OwnSocket, Stored, Settled, Routed, OnReusedPort, Known, Server

(* The routes of packets hold from the start.                                *)
THEOREM RoutesHold == Spec => []Routes
  <1>1. Init => Routes
    BY DEF Init, Routes, OwnSocket, Stored, Settled, Routed, InFlight, Known, Nobody, UserPort,
           Address
  <1>2. Routes /\ [Next]_vars => Routes'
    BY ClientRoutes, ServerRoutes, UserRoutes, OtherRoutes DEF Next
  <1> QED
    BY <1>1, <1>2, PTL DEF Spec

(* Neither end uses an address of an earlier channel (PeersAgree).           *)
THEOREM PeersAreOfThisChannel == Spec => []PeersAgree
  <1>1. Routes => PeersAgree
    BY DEF Routes, Stored, Settled, PeersAgree
  <1> QED
    BY <1>1, RoutesHold, PTL

-----------------------------------------------------------------------------
(* Packets that confirm no FIN.                                              *)
Unconfirming(out) == \A p \in out : p.kind # "FIN-ACK"

(* A step of the client's worker that goes on in its direction and confirms  *)
(* a FIN only when it has the data.                                          *)
LEMMA ClientProceeds ==
  ASSUME Outcome, ClientOnly, c_ready' => c_ready,
         NEW out, Adds(out), Unconfirming(out) \/ accepted' # 0,
         c_phase' \in {"send", "fin"} => direction = "UPLOAD",
         c_phase' \in {"recv", "linger"} => direction = "DOWNLOAD",
         c_phase' = "idle" => ~c_ready',
         \/ accepted' = accepted
         \/ accepted = 0 /\ direction = "DOWNLOAD" /\ (accepted' = channel \/ OnReusedPort)
  PROVE  Outcome'
  <1>1. UNCHANGED <<channel, mode, direction, c_socket, s_phase, reply>>
    BY DEF ClientOnly, setup_vars, server_vars, end_vars
  <1>2. Accepted'
    BY <1>1 DEF Outcome, Accepted, OnReusedPort
  <1>3. Concluded'
    <2>1. accepted # 0 => accepted' # 0
      BY DEF Outcome
    <2> QED
      BY <1>1, <2>1 DEF Outcome, Concluded, Server, Adds, Unconfirming
  <1> QED
    BY <1>2, <1>3 DEF Outcome, OneTransfer

(* The same of the server's worker, which may also give its reply.           *)
LEMMA ServerProceeds ==
  ASSUME Routes, Outcome, ServerOnly, s_phase # "idle",
         NEW out, Adds(out), Unconfirming(out) \/ FromServer(out),
         s_phase' \in {"send", "fin"} => direction = "DOWNLOAD",
         s_phase' \in {"recv", "linger"} => direction = "UPLOAD",
         s_phase' \in {"linger", "ok"} => accepted # 0,
         reply' = reply \/ (reply' = "226" => s_phase = "ok"),
         accepted' = accepted \/ (accepted = 0 /\ accepted' = channel)
  PROVE  Outcome'
  <1>1. UNCHANGED <<channel, mode, direction, c_socket, c_ready, c_phase>>
    BY DEF ServerOnly, setup_vars, client_vars
  <1>2. Accepted'
    BY <1>1 DEF Outcome, Accepted, OnReusedPort
  <1>3. accepted # 0 => accepted' # 0
    OBVIOUS
  <1>4. Concluded'
    <2>1. \A p \in out : p.kind = "FIN-ACK" => p.to # Server
      BY Distinct DEF Unconfirming, FromServer, Routes
    <2> QED
      BY <1>1, <1>3, <2>1 DEF Outcome, Concluded, Server, Adds
  <1> QED
    BY <1>1, <1>2, <1>4 DEF Outcome, OneTransfer

(* The client's worker keeps its direction, and answers a FIN when it has    *)
(* the data.                                                                 *)
LEMMA ClientOutcome == Routes /\ Outcome /\ Client => Outcome'
  <1> SUFFICES ASSUME Routes, Outcome, Client PROVE Outcome'
    OBVIOUS
  <1> USE DEF ClientIn
  <1>s. /\ c_phase \in {"send", "fin"} => direction = "UPLOAD"
        /\ c_phase \in {"recv", "linger"} => direction = "DOWNLOAD"
    BY DEF Outcome, Accepted
  <1>n. Unconfirming({})
    BY DEF Unconfirming
  <1>k. ASSUME NEW peer PROVE Unconfirming(ClientSends(peer))
    BY DEF ClientSends, Packet, Unconfirming
  <1>p. ASSUME NEW kind, NEW peer, kind # "FIN-ACK"
        PROVE  Unconfirming({Packet(kind, c_socket, peer)})
    BY <1>p DEF Packet, Unconfirming
  <1>1. CASE ClientOpens
    <2>1. CASE ClientIn("syn", Nobody, 1) /\ Sends({Packet("SYN", c_socket, Server)})
      BY <1>1, <1>p, <2>1, <1>n, Moves, ClientProceeds DEF ClientOpens
    <2>2. CASE ClientIn("await", Nobody, 0) /\ UNCHANGED network
      BY <1>1, <2>2, <1>n, Moves, ClientProceeds DEF ClientOpens
    <2>3. CASE direction = "DOWNLOAD" /\ ClientIn("recv", Anyone, 1) /\ UNCHANGED network
      BY <1>1, <2>3, <1>n, Moves, ClientProceeds DEF ClientOpens
    <2> QED
      BY <1>1, <2>1, <2>2, <2>3 DEF ClientOpens
  <1>2. CASE ClientRetriesSyn
    BY <1>2, <1>p, <1>n, Moves, ClientProceeds DEF ClientRetriesSyn
  <1>3. CASE ClientAwaitTimeout
    BY <1>3, <1>n, Moves, ClientProceeds DEF ClientAwaitTimeout
  <1>4. CASE ClientResends
    <2> DEFINE again == Packet(IF c_phase = "send" THEN "DATA" ELSE "FIN", c_socket, c_peer)
    <2>1. Unconfirming({again})
      BY <1>p
    <2>2. /\ c_phase' \in {c_phase, "failed"} /\ (Sends({again}) \/ UNCHANGED network)
          /\ ClientOnly /\ c_ready' = c_ready /\ accepted' = accepted /\ c_phase # "idle"
      BY <1>4 DEF ClientResends
    <2> HIDE DEF again
    <2> QED
      BY <1>s, <2>1, <2>2, <1>n, Moves, ClientProceeds
  <1>5. CASE ClientRecvTimeout
    BY <1>5, <1>n, Moves, ClientProceeds DEF ClientRecvTimeout
  <1>6. CASE ClientCancelled
    BY <1>6, <1>n, Moves, ClientProceeds DEF ClientCancelled
  <1>7. CASE ClientEnds
    BY <1>7, <1>n, Moves, ClientProceeds DEF ClientEnds
  <1>8. ASSUME NEW p \in InFlight,
               \/ ClientReceivesSynAck(p) \/ ClientReceivesSyn(p) \/ ClientReceivesAck(p)
               \/ ClientReceivesData(p) \/ ClientReceivesFin(p)
        PROVE  Outcome'
    <2>1. CASE ClientReceivesSynAck(p)
      <3>1. Unconfirming(ClientSends(Server))
        BY <1>k
      <3>2. \/ direction = "UPLOAD" /\ c_phase' = "send"
            \/ direction # "UPLOAD" /\ c_phase' = "recv"
        BY <2>1 DEF ClientReceivesSynAck, ClientData
      <3>3. direction \in Directions
        BY DEF Outcome, Accepted
      <3> QED
        BY <2>1, <3>1, <3>2, <3>3, <1>n, Moves, ClientProceeds DEF ClientReceivesSynAck, Directions
    <2>2. CASE ClientReceivesSyn(p)
      <3>1. Unconfirming({Packet("SYN-ACK", c_socket, p.from)} \cup ClientSends(p.from))
        BY <1>k, <1>p DEF Unconfirming
      <3>2. \/ direction = "UPLOAD" /\ c_phase' = "send"
            \/ direction # "UPLOAD" /\ c_phase' = "recv"
        BY <2>2 DEF ClientReceivesSyn, ClientData
      <3>3. direction \in Directions
        BY DEF Outcome, Accepted
      <3> QED
        BY <2>2, <3>1, <3>2, <3>3, <1>n, Moves, ClientProceeds DEF ClientReceivesSyn, Directions
    <2>3. CASE ClientReceivesAck(p)
      <3>1. c_phase \in {"send", "fin"}
        BY <2>3 DEF ClientReceivesAck, ClientWantsAck
      <3> QED
        BY <2>3, <3>1, <1>s, <1>p, <1>n, Moves, ClientProceeds DEF ClientReceivesAck
    <2>4. CASE ClientReceivesData(p)
      <3>1. c_phase = "recv" /\ c_ready /\ p.to = c_socket
        BY <2>4 DEF ClientReceivesData, ClientWantsData, ClientGets
      <3>2. p.from = Server \/ OnReusedPort
        BY <3>1 DEF Routes, Routed, OwnSocket, OnReusedPort
      <3>3. Server.id = channel
        BY DEF Server, Address
      <3>4. accepted' = accepted \/ (accepted = 0 /\ (accepted' = channel \/ OnReusedPort))
        BY <2>4, <3>2, <3>3 DEF ClientReceivesData
      <3> QED
        BY <2>4, <3>1, <3>4, <1>s, <1>p, <1>n, Moves, ClientProceeds DEF ClientReceivesData
    <2>5. CASE ClientReceivesFin(p)
      <3>1. c_phase \in {"recv", "linger"} /\ accepted # 0
        BY <2>5 DEF ClientReceivesFin, ClientWantsFin
      <3> QED
        BY <2>5, <3>1, <1>s, <1>p, <1>n, Moves, ClientProceeds DEF ClientReceivesFin
    <2> QED
      BY <1>8, <2>1, <2>2, <2>3, <2>4, <2>5
  <1> QED
    BY <1>1, <1>2, <1>3, <1>4, <1>5, <1>6, <1>7, <1>8 DEF Client, InFlight

(* The server's worker concludes with data, or with a FIN-ACK of a client    *)
(* that has it.                                                              *)
LEMMA ServerOutcome == Routes /\ Outcome /\ ServerStep => Outcome'
  <1> SUFFICES ASSUME Routes, Outcome, ServerStep PROVE Outcome'
    OBVIOUS
  <1> USE DEF ServerIn
  <1>s. /\ s_phase \in {"recv", "linger"} => direction = "UPLOAD"
        /\ s_phase \in {"send", "fin"} => direction = "DOWNLOAD"
        /\ s_phase \in {"linger", "ok"} => accepted # 0
        /\ direction \in Directions
    BY DEF Outcome, Accepted, Concluded
  <1>n. Unconfirming({})
    BY DEF Unconfirming
  <1>k. ASSUME NEW peer PROVE Unconfirming(ServerSends(peer))
    BY DEF ServerSends, Packet, Unconfirming
  <1>p. ASSUME NEW kind, NEW peer, kind # "FIN-ACK"
        PROVE  Unconfirming({Packet(kind, Server, peer)})
    BY <1>p DEF Packet, Unconfirming
  <1>d. ASSUME NEW peer, ServerData(peer)
        PROVE  \/ direction = "UPLOAD" /\ s_phase' = "recv"
               \/ direction = "DOWNLOAD" /\ s_phase' = "send"
    BY <1>s, <1>d DEF ServerData, Directions
  <1>1. CASE ServerOpens
    <2> DEFINE syn == Packet("SYN", Server, active_udp_address)
    <2>1. Unconfirming({syn})
      BY <1>p
    <2>2. \/ s_phase' \in {"failed", "discover", "syn"}
          \/ direction = "UPLOAD" /\ s_phase' = "recv"
          \/ direction = "DOWNLOAD" /\ s_phase' = "send"
      BY <1>1, <1>d DEF ServerOpens
    <2>3. \/ UNCHANGED network \/ Sends(ServerSends(passive_client_address))
          \/ Sends(ServerSends(active_udp_address)) \/ Sends({syn})
      BY <1>1 DEF ServerOpens
    <2>4. ServerOnly /\ s_phase # "idle" /\ reply' = reply /\ accepted' = accepted
      BY <1>1 DEF ServerOpens
    <2> HIDE DEF syn
    <2> QED
      BY <1>k, <1>n, <2>1, <2>2, <2>3, <2>4, Moves, ServerProceeds
  <1>2. CASE DiscoverTimeout
    BY <1>2, <1>n, Moves, ServerProceeds DEF DiscoverTimeout
  <1>a. AttemptFails => s_phase' \in {"syn", "unopened"}
    BY DEF AttemptFails
  <1>b. Unconfirming(NextSyn)
    BY <1>n, <1>p DEF NextSyn
  <1>3. CASE ServerRetriesSyn
    BY <1>3, <1>a, <1>b, <1>n, Moves, ServerProceeds DEF ServerRetriesSyn
  <1>4. CASE ServerResends
    <2> DEFINE again == Packet(IF s_phase = "send" THEN "DATA" ELSE "FIN", Server, s_peer)
    <2>1. Unconfirming({again})
      BY <1>p
    <2>2. /\ s_phase \in {"send", "fin"} /\ s_phase' \in {s_phase, "failed"}
          /\ (Sends({again}) \/ UNCHANGED network)
          /\ ServerOnly /\ reply' = reply /\ accepted' = accepted
      BY <1>4 DEF ServerResends
    <2> HIDE DEF again
    <2> QED
      BY <1>s, <2>1, <2>2, <1>n, Moves, ServerProceeds
  <1>5. CASE ServerRecvTimeout
    BY <1>5, <1>s, <1>n, Moves, ServerProceeds DEF ServerRecvTimeout
  <1>6. CASE ServerCancelled
    BY <1>6, <1>n, Moves, ServerProceeds DEF ServerCancelled
  <1>7. CASE ServerFinishes
    BY <1>7, <1>n, Moves, ServerProceeds DEF ServerFinishes, Over
  <1>8. ASSUME NEW p \in InFlight,
               \/ ServerDiscovers(p) \/ ServerReceivesSynAck(p) \/ ServerAnswersSynAgain(p)
               \/ ServerReceivesAck(p) \/ ServerReceivesData(p) \/ ServerReceivesFin(p)
        PROVE  Outcome'
    <2>1. CASE ServerDiscovers(p)
      <3>1. Unconfirming({SynAck(p.from)} \cup ServerSends(p.from))
        BY <1>k, <1>p DEF Unconfirming, SynAck
      <3>2. s_phase = "discover"
        BY <2>1 DEF ServerDiscovers, ServerWantsSyn
      <3>3. CASE s_open
        BY <2>1, <3>1, <3>2, <3>3, <1>d, <1>n, Moves, ServerProceeds DEF ServerDiscovers
      <3>4. CASE ~s_open
        BY <2>1, <3>2, <3>4, <1>n, Moves, ServerProceeds DEF ServerDiscovers
      <3> QED
        BY <3>3, <3>4
    <2>2. CASE ServerReceivesSynAck(p)
      BY <2>2, <1>a, <1>b, <1>d, <1>n, Moves, ServerProceeds DEF ServerReceivesSynAck
    <2>3. CASE ServerAnswersSynAgain(p)
      BY <2>3, <1>s, <1>p, <1>n, Moves, ServerProceeds
         DEF ServerAnswersSynAgain, ServerWantsSynAgain, SynAck
    <2>4. CASE ServerReceivesAck(p)
      <3>1. /\ s_phase = "send" \/ (s_phase = "fin" /\ p.kind = "FIN-ACK" /\ p.to = Server)
        BY <2>4 DEF ServerReceivesAck, ServerWantsAck, ServerGets
      <3>2. s_phase = "fin" => accepted # 0
        BY <3>1 DEF Outcome, Concluded
      <3> QED
        BY <2>4, <3>1, <3>2, <1>s, <1>p, <1>n, Moves, ServerProceeds DEF ServerReceivesAck
    <2>5. CASE ServerReceivesData(p)
      <3>1. s_phase = "recv" /\ p.to.id = channel
        BY <2>5 DEF ServerReceivesData, ServerWantsData, ServerGets, Server, Address
      <3> QED
        BY <2>5, <3>1, <1>s, <1>p, <1>n, Moves, ServerProceeds DEF ServerReceivesData
    <2>6. CASE ServerReceivesFin(p)
      <3>1. s_phase \in {"recv", "linger"} /\ accepted # 0
        BY <2>6 DEF ServerReceivesFin, ServerWantsFin
      <3>2. FromServer({Packet("FIN-ACK", Server, s_peer)})
        BY DEF Routes, Stored, FromServer, Packet
      <3> QED
        BY <2>6, <3>1, <3>2, <1>s, <1>n, Moves, ServerProceeds DEF ServerReceivesFin
    <2> QED
      BY <1>8, <2>1, <2>2, <2>3, <2>4, <2>5, <2>6
  <1> QED
    BY <1>1, <1>2, <1>3, <1>4, <1>5, <1>6, <1>7, <1>8 DEF ServerStep, InFlight

(* A new channel begins without data or answer, a transfer with neither.     *)
LEMMA UserOutcome == Routes /\ Outcome /\ User => Outcome'
  <1> SUFFICES ASSUME Routes, Outcome, User PROVE Outcome'
    OBVIOUS
  <1>1. ASSUME NEW m, NEW address, address # Server', Configure(m, address)
        PROVE  Outcome'
    <2>1. /\ c_phase' = "idle" /\ s_phase' = "idle" /\ direction' = direction
          /\ reply' = "none" /\ accepted' = 0
          /\ InFlight' = {p \in InFlight : p.to = address}
      BY <1>1 DEF Configure, client_vars, server_vars, ForOpenSockets, InFlight
    <2> QED
      BY <1>1, <2>1 DEF Outcome, Accepted, Concluded, OneTransfer
  <1>2. ASSUME NEW m \in Modes, NEW own \in BOOLEAN,
               Configure(m, IF own /\ m = "ACTIVE" THEN UserPort
                                                   ELSE Address("client", channel + 1))
        PROVE  Outcome'
    BY <1>1, <1>2 DEF Server, UserPort, Address
  <1>3. ASSUME NEW d \in Directions, Begin(d) PROVE Outcome'
    <2>1. /\ c_ready /\ c_phase = "idle" /\ c_phase' = "open" /\ s_phase' = "open"
          /\ direction' = d /\ UNCHANGED <<channel, mode, c_socket, reply, accepted>>
          /\ UNCHANGED network
      BY <1>3 DEF Begin, ClientIn, ServerIn
    <2>2. accepted = 0 /\ reply # "226"
      BY <2>1 DEF Outcome, OneTransfer
    <2> QED
      BY <2>1, <2>2 DEF Outcome, Accepted, Concluded, OneTransfer, network, InFlight, Server
  <1>4. CASE SendAbort
    BY <1>4 DEF SendAbort, setup_vars, client_vars, server_vars, network, Outcome, Accepted,
                Concluded, OneTransfer, OnReusedPort, Server, InFlight
  <1>5. CASE HandleAbort
    <2>1. /\ UNCHANGED <<setup_vars, c_ready, c_phase, s_phase, accepted, network>>
          /\ reply' = reply \/ (s_phase # "idle" /\ reply' = "aborted")
      BY <1>5 DEF HandleAbort, client_vars, server_vars
    <2> QED
      BY <2>1 DEF setup_vars, network, Outcome, Accepted, Concluded, OneTransfer, OnReusedPort,
                  Server, InFlight
  <1> QED
    BY <1>2, <1>3, <1>4, <1>5 DEF User

(* Loss, copies, skipped packets and time conclude nothing.                  *)
LEMMA OtherOutcome == Outcome /\ (Network \/ Tick \/ UNCHANGED vars) => Outcome'
  <1> SUFFICES ASSUME Outcome, Network \/ Tick \/ UNCHANGED vars PROVE Outcome'
    OBVIOUS
  <1>1. /\ UNCHANGED <<setup_vars, c_ready, c_phase, s_phase, reply, accepted>>
        /\ InFlight' \subseteq InFlight
    BY DEF Network, Lose, Duplicate, Discard, NetworkOnly, Tick, vars, client_vars,
           server_vars, end_vars, network, InFlight
  <1> QED
    BY <1>1 DEF setup_vars, Outcome, Accepted, Concluded, OneTransfer, OnReusedPort, Server

(* 226 means that the data of this channel has been accepted                 *)
(* (SuccessIsDelivery).                                                      *)
THEOREM SuccessIsOfThisChannel == Spec => []SuccessIsDelivery
  <1>1. Init => Outcome
    BY DEF Init, Outcome, Accepted, Concluded, OneTransfer, InFlight, Directions
  <1>2. Routes /\ Outcome /\ [Next]_vars => Outcome'
    BY ClientOutcome, ServerOutcome, UserOutcome, OtherOutcome DEF Next
  <1>3. Outcome => SuccessIsDelivery
    BY DEF Outcome, Accepted, Concluded, SuccessIsDelivery
  <1> QED
    BY <1>1, <1>2, <1>3, RoutesHold, PTL DEF Spec

-----------------------------------------------------------------------------
(* The handshakes: types, and that one that loses few packets is not given up *)

Loss == {"SYN", "SYN-ACK", "other"}
Ports == Addresses \cup {Nobody}

SetupType ==
  /\ channel \in 0..MaxChannels /\ mode \in Modes /\ direction \in Directions
  /\ c_socket \in Ports
  /\ c_ready \in BOOLEAN
  /\ c_ready => c_socket \in Addresses

ServerSetupType ==
  /\ s_ready \in BOOLEAN /\ s_open \in BOOLEAN
  /\ active_udp_address \in Ports /\ passive_client_address \in Ports
  /\ s_ready /\ mode = "ACTIVE" => active_udp_address \in Addresses

(* The data connection is reset by the worker that used it, when it ends.    *)
ClientType ==
  /\ c_phase \in Timed \cup Over \cup {"idle", "open"} /\ c_phase # "discover"
  /\ c_phase # "idle" => c_ready
  /\ c_peer \in Ports \cup {Anyone}
  /\ c_phase \in {"send", "fin"} => c_peer \in Addresses

(* An attempt is counted while there is one left.                            *)
ClientCounts ==
  /\ c_tries \in 0..(IF c_phase = "syn" THEN PASSIVE_HANDSHAKE_RETRIES ELSE DataTimeout)
  /\ c_waited \in 0..(IF c_phase \in Timed THEN Patience[c_phase] ELSE 0)

ServerType ==
  /\ s_phase \in Timed \cup Over \cup {"idle", "open"} /\ s_phase # "await"
  /\ s_peer \in Ports
  /\ s_phase \in {"syn", "send", "recv", "fin", "linger"} => s_peer \in Addresses

ServerCounts ==
  /\ s_tries \in 0..(IF s_phase = "syn" THEN ACTIVE_HANDSHAKE_RETRIES ELSE DataTimeout)
  /\ s_waited \in 0..(IF s_phase \in Timed THEN Patience[s_phase] ELSE 0)

EndType ==
  /\ abort \in {"none", "sent", "handled", "late"}
  /\ reply \in {"none", "226", "426", "aborted"}
  /\ accepted \in 0..MaxChannels

NetworkType ==
  /\ fresh \subseteq Packets /\ late \subseteq Packets
  /\ losses \in [Loss -> 0..MaxLosses] /\ LossCount \in 0..MaxLosses
  /\ copies \in 0..MaxCopies

TypeInv ==
  /\ SetupType /\ ServerSetupType /\ ClientType /\ ClientCounts
  /\ ServerType /\ ServerCounts /\ EndType /\ NetworkType

-----------------------------------------------------------------------------
(* The patience of each phase.                                               *)
LEMMA Patiences ==
  /\ Timed = {"syn", "send", "fin", "linger", "recv", "discover", "await"}
  /\ Patience["recv"] = DataTimeout /\ Patience["discover"] = PASSIVE_DISCOVERY_TIMEOUT
  /\ Patience["await"] = ACTIVE_UPLOAD_HANDSHAKE_TIMEOUT
  /\ \A phase \in {"syn", "send", "fin", "linger"} : Patience[phase] = 1
  /\ \A phase \in Timed : Patience[phase] \in Nat \ {0}
  BY TimersAssumption DEF Timed, Patience

(* The sockets of a channel, its peers and its packets are of the right type.*)
LEMMA AddressesExist ==
  ASSUME SetupType
  PROVE  /\ Server \in Addresses
         /\ \A p \in Packets : p.from \in Addresses /\ p.to \in Addresses /\ p.kind \in Kinds
         /\ \A kind \in Kinds, from \in Addresses, to \in Addresses :
              Packet(kind, from, to) \in Packets
         /\ \A a \in Addresses : a \notin {Nobody, Anyone}
  BY DEF SetupType, Server, Addresses, Address, Packets, Packet, Nobody, Anyone

(* Packets of the right type are sent and taken.                             *)
LEMMA NetworkTyped ==
  ASSUME NetworkType, NEW out, out \subseteq Packets,
         UNCHANGED network \/ Sends(out) \/ \E p \in InFlight : Takes(p, out)
  PROVE  NetworkType'
  <1>1. fresh' \subseteq Packets /\ late' \subseteq Packets
    BY DEF NetworkType, network, Sends, Takes
  <1>2. UNCHANGED <<losses, copies>>
    BY DEF network, Sends, Takes
  <1> QED
    BY <1>1, <1>2 DEF NetworkType, LossCount

(* What the client's worker leaves alone.                                    *)
LEMMA ClientFrame ==
  ASSUME TypeInv, ClientOnly, c_ready' \in BOOLEAN, c_ready' => c_ready
  PROVE  SetupType' /\ ServerSetupType' /\ ServerType' /\ ServerCounts'
  BY DEF TypeInv, ClientOnly, setup_vars, server_setup, server_vars, SetupType,
         ServerSetupType, ServerType, ServerCounts

(* A phase begins with its first attempt.                                    *)
LEMMA ClientEnters ==
  ASSUME NEW phase \in Timed \cup Over \cup {"idle", "open"}, NEW peer, NEW tries,
         tries \in {0, 1}, ClientIn(phase, peer, tries)
  PROVE  ClientCounts'
  <1>1. c_phase' = phase /\ c_tries' = tries /\ c_waited' = 0
    BY DEF ClientIn
  <1>2. phase \in Timed => Patience[phase] \in Nat
    BY Patiences
  <1> QED
    BY <1>1, <1>2, TimersAssumption DEF ClientCounts

(* The same at the server.                                                   *)
LEMMA ServerEnters ==
  ASSUME NEW phase \in Timed \cup Over \cup {"idle", "open"}, NEW peer, NEW tries,
         tries \in {0, 1}, ServerIn(phase, peer, tries)
  PROVE  ServerCounts'
  <1>1. s_phase' = phase /\ s_tries' = tries /\ s_waited' = 0
    BY DEF ServerIn
  <1>2. phase \in Timed => Patience[phase] \in Nat
    BY Patiences
  <1> QED
    BY <1>1, <1>2, TimersAssumption DEF ServerCounts

(* Every step of the client's worker keeps the types.                        *)
LEMMA ClientTyped == TypeInv /\ Client => TypeInv'
  <1> SUFFICES ASSUME TypeInv, Client PROVE TypeInv'
    OBVIOUS
  <1> USE DEF Over
  <1>t. /\ SetupType /\ ClientType /\ ClientCounts /\ NetworkType /\ EndType
        /\ c_ready => c_socket \in Addresses
        /\ direction \in Directions
    BY DEF TypeInv, SetupType
  <1>a. /\ Server \in Addresses /\ Server \in Ports
        /\ \A p \in Packets : p.from \in Addresses /\ p.to \in Addresses
        /\ \A kind \in Kinds, from \in Addresses, to \in Addresses :
             Packet(kind, from, to) \in Packets
    BY <1>t, AddressesExist DEF Ports
  <1>c. Addresses \subseteq Ports /\ Nobody \in Ports
    BY DEF Ports
  <1>e. ASSUME UNCHANGED end_vars, accepted' \in 0..MaxChannels PROVE EndType'
    BY <1>t, <1>e DEF end_vars, EndType
  <1>f. EndType /\ accepted' = accepted => accepted' \in 0..MaxChannels
    BY DEF EndType
  <1>1. ASSUME ClientOnly, c_ready' \in BOOLEAN, c_ready' => c_ready,
               accepted' \in 0..MaxChannels, ClientType', ClientCounts', NetworkType'
        PROVE  TypeInv'
    <2>1. UNCHANGED end_vars
      BY <1>1 DEF ClientOnly
    <2> QED
      BY <1>1, <1>e, <2>1, ClientFrame DEF TypeInv
  <1>2. ASSUME NEW phase \in (Timed \cup Over \cup {"open"}) \ {"discover"},
               NEW peer \in Ports \cup {Anyone}, NEW tries, tries \in {0, 1},
               phase \in {"send", "fin"} => peer \in Addresses,
               ClientIn(phase, peer, tries), c_ready, c_ready' = c_ready
        PROVE  ClientType' /\ ClientCounts'
    <2>1. ClientCounts'
      BY <1>2, ClientEnters
    <2> QED
      BY <1>2, <2>1 DEF ClientType, ClientIn
  <1>3. c_ready \in BOOLEAN /\ (c_phase # "idle" => c_ready) /\ accepted \in 0..MaxChannels
    BY <1>t DEF SetupType, ClientType, EndType
  <1>k. /\ {"syn", "send", "fin", "linger", "recv", "await", "failed", "ok", "unopened"}
             \subseteq (Timed \cup Over \cup {"open"}) \ {"discover"}
        /\ {"SYN", "SYN-ACK", "DATA", "ACK", "FIN", "FIN-ACK"} = Kinds
    BY Patiences DEF Kinds
  <1>n. {} \subseteq Packets
    OBVIOUS
  <1>d. ASSUME NEW peer \in Addresses, c_ready PROVE ClientSends(peer) \subseteq Packets
    BY <1>d, <1>t, <1>a, <1>k DEF ClientSends
  <1>4. CASE ClientOpens
    <2>1. c_ready /\ ClientOnly /\ c_ready' = c_ready /\ accepted' = accepted
      BY <1>3, <1>4 DEF ClientOpens
    <2>2. CASE ClientIn("syn", Nobody, 1) /\ Sends({Packet("SYN", c_socket, Server)})
      <3>1. {Packet("SYN", c_socket, Server)} \subseteq Packets
        BY <1>t, <1>a, <1>k, <2>1
      <3> QED
        BY <1>1, <1>2, <1>3, <1>t, <1>c, <1>k, <2>1, <2>2, <3>1, NetworkTyped
    <2>3. CASE ClientIn("await", Nobody, 0) /\ UNCHANGED network
      BY <1>1, <1>2, <1>3, <1>t, <1>c, <1>k, <1>n, <2>1, <2>3, NetworkTyped
    <2>4. CASE ClientIn("recv", Anyone, 1) /\ UNCHANGED network
      BY <1>1, <1>2, <1>3, <1>t, <1>k, <1>n, <2>1, <2>4, NetworkTyped
    <2> QED
      BY <1>4, <2>2, <2>3, <2>4 DEF ClientOpens
  <1>5. CASE ClientRetriesSyn
    <2>1. c_ready /\ ClientOnly /\ c_ready' = c_ready /\ accepted' = accepted
      BY <1>3, <1>5 DEF ClientRetriesSyn
    <2>2. CASE SynLeft
      <3>1. {Packet("SYN", c_socket, Server)} \subseteq Packets
        BY <1>t, <1>a, <1>k, <2>1
      <3>2. ClientIn("syn", Nobody, c_tries + 1) /\ Sends({Packet("SYN", c_socket, Server)})
        BY <1>5, <2>2 DEF ClientRetriesSyn
      <3>3. c_tries \in Nat /\ c_tries < PASSIVE_HANDSHAKE_RETRIES
        BY <1>5, <1>t, <2>2, TimersAssumption DEF ClientRetriesSyn, ClientCounts, SynLeft
      <3>4. "syn" \in Timed /\ Patience["syn"] = 1
        BY Patiences
      <3>5. ClientCounts'
        BY <3>2, <3>3, <3>4, TimersAssumption DEF ClientIn, ClientCounts
      <3>6. ClientType'
        BY <3>2, <2>1, <3>4, <1>c DEF ClientIn, ClientType
      <3> QED
        BY <1>1, <1>3, <1>t, <2>1, <3>1, <3>2, <3>5, <3>6, NetworkTyped
    <2>3. CASE ~SynLeft
      <3>1. ClientIn("unopened", Nobody, 0) /\ UNCHANGED network
        BY <1>5, <2>3 DEF ClientRetriesSyn
      <3> QED
        BY <1>1, <1>2, <1>3, <1>t, <1>c, <1>k, <1>n, <2>1, <3>1, NetworkTyped
    <2> QED
      BY <2>2, <2>3
  <1>6. CASE ClientAwaitTimeout
    BY <1>6, <1>1, <1>2, <1>3, <1>t, <1>c, <1>k, <1>n, NetworkTyped DEF ClientAwaitTimeout
  <1>7. CASE ClientResends
    <2>1. c_ready /\ ClientOnly /\ c_ready' = c_ready /\ accepted' = accepted
      BY <1>3, <1>7 DEF ClientResends
    <2>2. c_phase \in {"send", "fin"} /\ c_peer \in Addresses /\ c_peer \in Ports \cup {Anyone}
      BY <1>7, <1>t DEF ClientResends, ClientType
    <2>3. CASE c_tries < DataTimeout
      <3>1. ClientIn(c_phase, c_peer, c_tries + 1)
            /\ Sends({Packet(IF c_phase = "send" THEN "DATA" ELSE "FIN", c_socket, c_peer)})
        BY <1>7, <2>3 DEF ClientResends
      <3>2. {Packet(IF c_phase = "send" THEN "DATA" ELSE "FIN", c_socket, c_peer)} \subseteq Packets
        BY <1>t, <1>a, <1>k, <2>1, <2>2
      <3>3. c_phase \in Timed /\ Patience[c_phase] = 1 /\ c_phase # "syn"
        BY <2>2, Patiences
      <3>4. c_tries \in Nat
        BY <1>t, <3>3, TimersAssumption DEF ClientCounts
      <3>5. ClientCounts'
        BY <2>3, <3>1, <3>3, <3>4, TimersAssumption DEF ClientIn, ClientCounts
      <3>6. ClientType'
        BY <2>1, <2>2, <3>1, <3>3 DEF ClientIn, ClientType
      <3> QED
        BY <1>1, <1>3, <1>t, <2>1, <3>1, <3>2, <3>5, <3>6, NetworkTyped
    <2>4. CASE ~(c_tries < DataTimeout)
      <3>1. ClientIn("failed", c_peer, 0) /\ UNCHANGED network
        BY <1>7, <2>4 DEF ClientResends
      <3> QED
        BY <1>1, <1>2, <1>3, <1>t, <1>k, <1>n, <2>1, <2>2, <3>1, NetworkTyped
    <2> QED
      BY <2>3, <2>4
  <1>8. c_peer \in Ports \cup {Anyone}
    BY <1>t DEF ClientType
  <1>9. CASE ClientRecvTimeout
    BY <1>9, <1>1, <1>2, <1>3, <1>8, <1>t, <1>k, <1>n, NetworkTyped DEF ClientRecvTimeout
  <1>10. CASE ClientCancelled
    BY <1>10, <1>1, <1>2, <1>3, <1>8, <1>t, <1>k, <1>n, NetworkTyped DEF ClientCancelled
  <1>11. CASE ClientEnds
    <2>1. ClientIn("idle", Nobody, 0) /\ c_ready' = FALSE /\ ClientOnly /\ accepted' = accepted
          /\ UNCHANGED network
      BY <1>11 DEF ClientEnds
    <2>2. ClientType'
      BY <2>1, <1>c DEF ClientIn, ClientType
    <2>3. ClientCounts'
      BY <2>1, ClientEnters
    <2> QED
      BY <2>1, <2>2, <2>3, <1>1, <1>3, <1>t, <1>n, NetworkTyped
  <1>12. ASSUME NEW p \in InFlight,
                \/ ClientReceivesSynAck(p) \/ ClientReceivesSyn(p) \/ ClientReceivesAck(p)
                \/ ClientReceivesData(p) \/ ClientReceivesFin(p)
         PROVE  TypeInv'
    <2>1. p \in Packets /\ p.from \in Addresses /\ p.from \in Ports \cup {Anyone}
      BY <1>t, <1>a, <1>c DEF NetworkType, InFlight
    <2>2. c_phase # "idle" => c_ready /\ c_socket \in Addresses
      BY <1>3, <1>t
    <2>3. CASE ClientReceivesSynAck(p)
      <3>1. c_ready /\ ClientOnly /\ c_ready' = c_ready /\ accepted' = accepted
        BY <1>3, <2>3 DEF ClientReceivesSynAck, ClientWantsSynAck
      <3>2. ClientData(Server) /\ Takes(p, ClientSends(Server))
        BY <2>3 DEF ClientReceivesSynAck
      <3> QED
        BY <3>1, <3>2, <1>1, <1>2, <1>3, <1>a, <1>d, <1>t, <1>k, NetworkTyped DEF ClientData
    <2>4. CASE ClientReceivesSyn(p)
      <3>1. c_ready /\ ClientOnly /\ c_ready' = c_ready /\ accepted' = accepted
        BY <1>3, <2>4 DEF ClientReceivesSyn, ClientWantsSyn
      <3>2. ClientData(p.from)
            /\ Takes(p, {Packet("SYN-ACK", c_socket, p.from)} \cup ClientSends(p.from))
        BY <2>4 DEF ClientReceivesSyn
      <3>3. {Packet("SYN-ACK", c_socket, p.from)} \cup ClientSends(p.from) \subseteq Packets
        BY <3>1, <2>1, <1>a, <1>d, <1>t, <1>k
      <3> QED
        BY <3>1, <3>2, <3>3, <2>1, <1>1, <1>2, <1>3, <1>t, <1>k, NetworkTyped DEF ClientData
    <2>5. CASE ClientReceivesAck(p)
      <3>1. c_ready /\ ClientOnly /\ c_ready' = c_ready /\ accepted' = accepted /\ c_peer = p.from
        BY <1>3, <2>5 DEF ClientReceivesAck, ClientWantsAck
      <3>2. {Packet("FIN", c_socket, c_peer)} \subseteq Packets
        BY <3>1, <2>1, <1>a, <1>t, <1>k
      <3>3. CASE ClientIn("fin", c_peer, 1) /\ Takes(p, {Packet("FIN", c_socket, c_peer)})
        BY <3>1, <3>2, <3>3, <2>1, <1>1, <1>2, <1>3, <1>t, <1>k, NetworkTyped
      <3>4. CASE ClientIn("ok", c_peer, 0) /\ Takes(p, {})
        BY <3>1, <3>4, <2>1, <1>1, <1>2, <1>3, <1>t, <1>k, <1>n, NetworkTyped
      <3> QED
        BY <2>5, <3>3, <3>4 DEF ClientReceivesAck
    <2>6. CASE ClientReceivesData(p)
      <3>1. c_ready /\ ClientOnly /\ c_ready' = c_ready
        BY <1>3, <2>6 DEF ClientReceivesData, ClientWantsData
      <3>2. {Packet("ACK", c_socket, p.from)} \subseteq Packets
        BY <3>1, <2>1, <1>a, <1>t, <1>k
      <3>3. ClientIn("recv", c_peer, 1) /\ Takes(p, {Packet("ACK", c_socket, p.from)})
            /\ accepted' \in {accepted, p.from.id}
        BY <2>6 DEF ClientReceivesData
      <3>4. p.from.id \in 0..MaxChannels
        BY <2>1 DEF Addresses
      <3>5. NetworkType'
        BY <3>2, <3>3, <1>t, NetworkTyped
      <3> QED
        BY <3>1, <3>3, <3>4, <3>5, <1>1, <1>2, <1>3, <1>8, <1>k
    <2>7. CASE ClientReceivesFin(p)
      <3>1. c_ready /\ ClientOnly /\ c_ready' = c_ready /\ accepted' = accepted
        BY <1>3, <2>7 DEF ClientReceivesFin, ClientWantsFin
      <3>2. {Packet("FIN-ACK", c_socket, p.from)} \subseteq Packets
        BY <3>1, <2>1, <1>a, <1>t, <1>k
      <3>3. ClientIn("linger", p.from, 0) /\ Takes(p, {Packet("FIN-ACK", c_socket, p.from)})
        BY <2>7 DEF ClientReceivesFin
      <3> QED
        BY <3>1, <3>2, <3>3, <2>1, <1>1, <1>2, <1>3, <1>t, <1>k, NetworkTyped
    <2> QED
      BY <1>12, <2>3, <2>4, <2>5, <2>6, <2>7
  <1> QED
    BY <1>4, <1>5, <1>6, <1>7, <1>9, <1>10, <1>11, <1>12 DEF Client, InFlight

(* What the server's worker leaves alone.                                    *)
LEMMA ServerFrame ==
  ASSUME TypeInv, ServerOnly
  PROVE  SetupType' /\ ClientType' /\ ClientCounts'
  BY DEF TypeInv, ServerOnly, setup_vars, client_vars, SetupType, ClientType, ClientCounts

(* Every step of the server's worker keeps the types.                        *)
LEMMA ServerTyped == TypeInv /\ ServerStep => TypeInv'
  <1> SUFFICES ASSUME TypeInv, ServerStep PROVE TypeInv'
    OBVIOUS
  <1> USE DEF Over
  <1>t. /\ SetupType /\ ServerSetupType /\ ServerType /\ ServerCounts /\ NetworkType /\ EndType
        /\ direction \in Directions
    BY DEF TypeInv, SetupType
  <1>a. /\ Server \in Addresses
        /\ \A p \in Packets : p.from \in Addresses /\ p.to \in Addresses
        /\ \A kind \in Kinds, from \in Addresses, to \in Addresses :
             Packet(kind, from, to) \in Packets
    BY <1>t, AddressesExist
  <1>c. Addresses \subseteq Ports /\ Nobody \in Ports /\ s_peer \in Ports
    BY <1>t DEF Ports, ServerType
  <1>e. ASSUME UNCHANGED abort, reply' \in {reply, "226", "426"}, accepted' \in 0..MaxChannels
        PROVE  EndType'
    BY <1>t, <1>e DEF EndType
  <1>g. accepted \in 0..MaxChannels
    BY <1>t DEF EndType
  <1>s. ASSUME SetupKept, ServerOnly PROVE ServerSetupType'
    BY <1>t, <1>s DEF SetupKept, server_setup, ServerOnly, setup_vars, ServerSetupType
  <1>1. ASSUME ServerOnly, ServerSetupType', accepted' \in 0..MaxChannels,
               reply' \in {reply, "226", "426"}, ServerType', ServerCounts', NetworkType'
        PROVE  TypeInv'
    <2>1. UNCHANGED abort
      BY <1>1 DEF ServerOnly
    <2> QED
      BY <1>1, <1>e, <2>1, ServerFrame DEF TypeInv
  <1>2. ASSUME NEW phase \in (Timed \cup Over \cup {"idle", "open"}) \ {"await"},
               NEW peer \in Ports, NEW tries, tries \in {0, 1},
               phase \in {"syn", "send", "recv", "fin", "linger"} => peer \in Addresses,
               ServerIn(phase, peer, tries)
        PROVE  ServerType' /\ ServerCounts'
    <2>1. ServerCounts'
      BY <1>2, ServerEnters
    <2> QED
      BY <1>2, <2>1 DEF ServerType, ServerIn
  <1>k. /\ {"syn", "send", "fin", "linger", "recv", "discover", "failed", "ok", "unopened", "idle"}
             \subseteq (Timed \cup Over \cup {"idle", "open"}) \ {"await"}
        /\ {"SYN", "SYN-ACK", "DATA", "ACK", "FIN", "FIN-ACK"} = Kinds
    BY Patiences DEF Kinds
  <1>n. {} \subseteq Packets
    OBVIOUS
  <1>d. ASSUME NEW peer \in Addresses PROVE ServerSends(peer) \subseteq Packets
    BY <1>d, <1>a, <1>k DEF ServerSends
  <1>q. s_phase \in {"syn", "send", "recv", "fin", "linger"} => s_peer \in Addresses
    BY <1>t DEF ServerType
  <1>3. CASE ServerOpens
    <2>1. ServerOnly /\ SetupKept /\ reply' = reply /\ accepted' = accepted
      BY <1>3 DEF ServerOpens
    <2>2. CASE ServerIn("failed", Nobody, 0) /\ UNCHANGED network
      BY <2>1, <2>2, <1>1, <1>2, <1>c, <1>g, <1>k, <1>n, <1>s, <1>t, NetworkTyped
    <2>3. CASE ServerIn("discover", Nobody, 0) /\ UNCHANGED network
      BY <2>1, <2>3, <1>1, <1>2, <1>c, <1>g, <1>k, <1>n, <1>s, <1>t, NetworkTyped
    <2>4. ASSUME NEW peer \in Addresses, ServerData(peer), Sends(ServerSends(peer))
          PROVE  TypeInv'
      BY <2>1, <2>4, <1>1, <1>2, <1>c, <1>d, <1>g, <1>k, <1>s, <1>t, NetworkTyped DEF ServerData
    <2>5. CASE passive_client_address # Nobody /\ ServerData(passive_client_address)
               /\ Sends(ServerSends(passive_client_address))
      <3>1. passive_client_address \in Addresses
        BY <1>t, <2>5 DEF ServerSetupType, Ports
      <3> QED
        BY <2>4, <2>5, <3>1
    <2>6. s_ready /\ mode = "ACTIVE" => active_udp_address \in Addresses
      BY <1>t DEF ServerSetupType
    <2>7. CASE s_ready /\ mode = "ACTIVE" /\ ServerData(active_udp_address)
               /\ Sends(ServerSends(active_udp_address))
      BY <2>4, <2>6, <2>7
    <2>8. CASE s_ready /\ mode = "ACTIVE" /\ ServerIn("syn", active_udp_address, 1)
               /\ Sends({Packet("SYN", Server, active_udp_address)})
      <3>1. {Packet("SYN", Server, active_udp_address)} \subseteq Packets
        BY <2>6, <2>8, <1>a, <1>k
      <3> QED
        BY <2>1, <2>6, <2>8, <3>1, <1>1, <1>2, <1>c, <1>g, <1>k, <1>s, <1>t, NetworkTyped
    <2> QED
      BY <1>3, <2>2, <2>3, <2>5, <2>7, <2>8 DEF ServerOpens
  <1>4. CASE DiscoverTimeout
    BY <1>4, <1>1, <1>2, <1>c, <1>g, <1>k, <1>n, <1>s, <1>t, NetworkTyped DEF DiscoverTimeout
  <1>5. ASSUME s_phase = "syn", AttemptFails
        PROVE  ServerType' /\ ServerCounts' /\ NextSyn \subseteq Packets
    <2>1. CASE AttemptLeft
      <3>1. ServerIn("syn", s_peer, s_tries + 1) /\ s_peer \in Addresses
        BY <1>5, <1>q, <2>1 DEF AttemptFails
      <3>2. s_tries \in Nat /\ s_tries < ACTIVE_HANDSHAKE_RETRIES
        BY <1>5, <1>t, <2>1, TimersAssumption DEF ServerCounts, AttemptLeft
      <3>3. "syn" \in Timed /\ Patience["syn"] = 1
        BY Patiences
      <3>4. ServerCounts'
        BY <3>1, <3>2, <3>3, TimersAssumption DEF ServerIn, ServerCounts
      <3>5. ServerType'
        BY <3>1, <3>3, <1>c DEF ServerIn, ServerType
      <3> QED
        BY <3>1, <3>4, <3>5, <1>a, <1>k DEF NextSyn
    <2>2. CASE ~AttemptLeft
      <3>1. ServerIn("unopened", s_peer, 0)
        BY <1>5, <2>2 DEF AttemptFails
      <3> QED
        BY <2>2, <3>1, <1>2, <1>c, <1>k, <1>n DEF NextSyn
    <2> QED
      BY <2>1, <2>2
  <1>6. CASE ServerRetriesSyn
    BY <1>6, <1>5, <1>1, <1>g, <1>s, <1>t, NetworkTyped DEF ServerRetriesSyn
  <1>7. CASE ServerResends
    <2>1. ServerOnly /\ SetupKept /\ reply' = reply /\ accepted' = accepted
      BY <1>7 DEF ServerResends
    <2>2. s_phase \in {"send", "fin"} /\ s_peer \in Addresses
      BY <1>7, <1>q DEF ServerResends
    <2>3. CASE s_tries < DataTimeout
      <3>1. ServerIn(s_phase, s_peer, s_tries + 1)
            /\ Sends({Packet(IF s_phase = "send" THEN "DATA" ELSE "FIN", Server, s_peer)})
        BY <1>7, <2>3 DEF ServerResends
      <3>2. {Packet(IF s_phase = "send" THEN "DATA" ELSE "FIN", Server, s_peer)} \subseteq Packets
        BY <1>a, <1>k, <2>2
      <3>3. s_phase \in Timed /\ Patience[s_phase] = 1 /\ s_phase \notin {"syn", "await"}
        BY <2>2, Patiences
      <3>4. s_tries \in Nat
        BY <1>t, <3>3, TimersAssumption DEF ServerCounts
      <3>5. ServerCounts'
        BY <2>3, <3>1, <3>3, <3>4, TimersAssumption DEF ServerIn, ServerCounts
      <3>6. ServerType'
        BY <2>2, <3>1, <3>3, <1>c DEF ServerIn, ServerType
      <3> QED
        BY <1>1, <1>g, <1>s, <1>t, <2>1, <3>1, <3>2, <3>5, <3>6, NetworkTyped
    <2>4. CASE ~(s_tries < DataTimeout)
      <3>1. ServerIn("failed", s_peer, 0) /\ UNCHANGED network
        BY <1>7, <2>4 DEF ServerResends
      <3> QED
        BY <2>1, <3>1, <1>1, <1>2, <1>c, <1>g, <1>k, <1>n, <1>s, <1>t, NetworkTyped
    <2> QED
      BY <2>3, <2>4
  <1>8. CASE ServerRecvTimeout
    BY <1>8, <1>1, <1>2, <1>c, <1>g, <1>k, <1>n, <1>s, <1>t, NetworkTyped DEF ServerRecvTimeout
  <1>9. CASE ServerCancelled
    BY <1>9, <1>1, <1>2, <1>c, <1>g, <1>k, <1>n, <1>s, <1>t, NetworkTyped DEF ServerCancelled
  <1>10. CASE ServerFinishes
    BY <1>10, <1>1, <1>2, <1>c, <1>g, <1>k, <1>n, <1>s, <1>t, NetworkTyped DEF ServerFinishes
  <1>11. ASSUME NEW p \in InFlight,
                \/ ServerDiscovers(p) \/ ServerReceivesSynAck(p) \/ ServerAnswersSynAgain(p)
                \/ ServerReceivesAck(p) \/ ServerReceivesData(p) \/ ServerReceivesFin(p)
         PROVE  TypeInv'
    <2>1. p \in Packets /\ p.from \in Addresses /\ p.to \in Addresses
      BY <1>t, <1>a DEF NetworkType, InFlight
    <2>2. CASE ServerDiscovers(p)
      <3>1. /\ ServerOnly /\ reply' = reply /\ accepted' = accepted
            /\ UNCHANGED <<s_ready, active_udp_address, s_open>>
            /\ passive_client_address' = p.from
        BY <2>2 DEF ServerDiscovers
      <3>2. ServerSetupType'
        BY <3>1, <2>1, <1>c, <1>t DEF ServerSetupType, ServerOnly, setup_vars
      <3>3. CASE ServerData(p.from) /\ Takes(p, {SynAck(p.from)} \cup ServerSends(p.from))
        <4>1. {SynAck(p.from)} \cup ServerSends(p.from) \subseteq Packets
          BY <2>1, <1>a, <1>d, <1>k DEF SynAck
        <4>2. NetworkType'
          BY <3>3, <4>1, <1>t, NetworkTyped
        <4>3. ServerType' /\ ServerCounts'
          BY <3>3, <2>1, <1>2, <1>c, <1>k DEF ServerData
        <4> QED
          BY <3>1, <3>2, <4>2, <4>3, <1>1, <1>g
      <3>4. CASE ServerIn("failed", Nobody, 0) /\ Takes(p, {})
        BY <3>1, <3>2, <3>4, <1>1, <1>2, <1>c, <1>g, <1>k, <1>n, <1>t, NetworkTyped
      <3> QED
        BY <2>2, <3>3, <3>4 DEF ServerDiscovers
    <2>3. CASE ServerReceivesSynAck(p)
      <3>1. ServerOnly /\ SetupKept /\ reply' = reply /\ accepted' = accepted /\ s_phase = "syn"
        BY <2>3 DEF ServerReceivesSynAck
      <3>2. CASE ServerData(s_peer) /\ Takes(p, {})
        BY <3>1, <3>2, <1>1, <1>2, <1>c, <1>g, <1>k, <1>n, <1>q, <1>s, <1>t, NetworkTyped
           DEF ServerData
      <3>3. CASE AttemptFails /\ (Takes(p, NextSyn) \/ Sends(NextSyn))
        BY <3>1, <3>3, <1>5, <1>1, <1>g, <1>s, <1>t, NetworkTyped
      <3> QED
        BY <2>3, <3>2, <3>3 DEF ServerReceivesSynAck, MoreFollows
    <2>4. CASE ServerAnswersSynAgain(p)
      <3>1. /\ ServerOnly /\ SetupKept /\ reply' = reply /\ accepted' = accepted
            /\ s_phase \in {"send", "recv"}
            /\ ServerIn(s_phase, s_peer, 1) /\ Takes(p, {SynAck(s_peer)})
        BY <2>4 DEF ServerAnswersSynAgain, ServerWantsSynAgain
      <3>2. {SynAck(s_peer)} \subseteq Packets
        BY <3>1, <1>q, <1>a, <1>k DEF SynAck
      <3> QED
        BY <3>1, <3>2, <1>1, <1>2, <1>c, <1>g, <1>k, <1>q, <1>s, <1>t, NetworkTyped
    <2>5. CASE ServerReceivesAck(p)
      <3>1. ServerOnly /\ SetupKept /\ reply' = reply /\ accepted' = accepted /\ s_peer = p.from
        BY <2>5 DEF ServerReceivesAck, ServerWantsAck
      <3>2. {Packet("FIN", Server, s_peer)} \subseteq Packets
        BY <3>1, <2>1, <1>a, <1>k
      <3>3. CASE ServerIn("fin", s_peer, 1) /\ Takes(p, {Packet("FIN", Server, s_peer)})
        BY <3>1, <3>2, <3>3, <2>1, <1>1, <1>2, <1>c, <1>g, <1>k, <1>s, <1>t, NetworkTyped
      <3>4. CASE ServerIn("ok", s_peer, 0) /\ Takes(p, {})
        BY <3>1, <3>4, <1>1, <1>2, <1>c, <1>g, <1>k, <1>n, <1>s, <1>t, NetworkTyped
      <3> QED
        BY <2>5, <3>3, <3>4 DEF ServerReceivesAck
    <2>6. CASE ServerReceivesData(p)
      <3>1. /\ ServerOnly /\ SetupKept /\ reply' = reply /\ s_phase = "recv"
            /\ ServerIn("recv", s_peer, 1) /\ Takes(p, {Packet("ACK", Server, s_peer)})
            /\ accepted' \in {accepted, p.to.id}
        BY <2>6 DEF ServerReceivesData, ServerWantsData
      <3>2. {Packet("ACK", Server, s_peer)} \subseteq Packets
        BY <3>1, <1>q, <1>a, <1>k
      <3>3. p.to.id \in 0..MaxChannels
        BY <2>1 DEF Addresses
      <3>4. NetworkType'
        BY <3>1, <3>2, <1>t, NetworkTyped
      <3> QED
        BY <3>1, <3>3, <3>4, <1>1, <1>2, <1>c, <1>g, <1>k, <1>q, <1>s
    <2>7. CASE ServerReceivesFin(p)
      <3>1. /\ ServerOnly /\ SetupKept /\ reply' = reply /\ accepted' = accepted
            /\ s_phase \in {"recv", "linger"}
            /\ ServerIn("linger", s_peer, 0) /\ Takes(p, {Packet("FIN-ACK", Server, s_peer)})
        BY <2>7 DEF ServerReceivesFin, ServerWantsFin
      <3>2. {Packet("FIN-ACK", Server, s_peer)} \subseteq Packets
        BY <3>1, <1>q, <1>a, <1>k
      <3> QED
        BY <3>1, <3>2, <1>1, <1>2, <1>c, <1>g, <1>k, <1>q, <1>s, <1>t, NetworkTyped
    <2> QED
      BY <1>11, <2>2, <2>3, <2>4, <2>5, <2>6, <2>7
  <1> QED
    BY <1>3, <1>4, <1>6, <1>7, <1>8, <1>9, <1>10, <1>11 DEF ServerStep, InFlight

(* Every command of the user keeps the types.                                *)
LEMMA UserTyped == TypeInv /\ User => TypeInv'
  <1> SUFFICES ASSUME TypeInv, User PROVE TypeInv'
    OBVIOUS
  <1>t. /\ SetupType /\ ServerSetupType /\ ClientType /\ ClientCounts /\ ServerType /\ ServerCounts
        /\ NetworkType /\ EndType /\ direction \in Directions
    BY DEF TypeInv, SetupType
  <1>1. ASSUME NEW m \in Modes, NEW address,
               channel < MaxChannels => address \in Addresses, Configure(m, address)
        PROVE  TypeInv'
    <2>1. /\ channel' = channel + 1 /\ mode' = m /\ c_socket' = address /\ c_ready' = TRUE
          /\ channel < MaxChannels /\ direction' = direction
      BY <1>1 DEF Configure
    <2>2. SetupType'
      BY <1>1, <1>t, <2>1, TimersAssumption DEF SetupType, Ports
    <2>3. ServerSetupType'
      BY <1>1, <2>1 DEF Configure, ServerSetupType, Ports
    <2>4. /\ UNCHANGED client_vars /\ UNCHANGED server_vars /\ UNCHANGED abort
          /\ reply' = "none" /\ accepted' = 0
          /\ fresh' \subseteq fresh /\ late' \subseteq late /\ UNCHANGED <<losses, copies>>
      BY <1>1 DEF Configure, ForOpenSockets
    <2>5. ClientType' /\ ClientCounts'
      BY <1>t, <2>1, <2>4 DEF client_vars, ClientType, ClientCounts
    <2>6. ServerType' /\ ServerCounts'
      BY <1>t, <2>4 DEF server_vars, ServerType, ServerCounts
    <2>7. EndType'
      BY <1>t, <2>4, TimersAssumption DEF EndType
    <2>8. NetworkType'
      BY <1>t, <2>4 DEF NetworkType, LossCount
    <2> QED
      BY <2>2, <2>3, <2>5, <2>6, <2>7, <2>8 DEF TypeInv
  <1>2. ASSUME NEW d \in Directions, Begin(d) PROVE TypeInv'
    <2>1. /\ direction' = d /\ abort' = "none" /\ c_ready
          /\ UNCHANGED <<channel, mode, c_socket, c_ready, server_setup, reply, accepted, network>>
          /\ ClientIn("open", Nobody, 0) /\ ServerIn("open", Nobody, 0)
      BY <1>2 DEF Begin
    <2>2. SetupType' /\ ServerSetupType'
      BY <1>t, <2>1 DEF SetupType, ServerSetupType, server_setup
    <2>3. ClientType' /\ ServerType'
      BY <2>1, Patiences DEF ClientIn, ServerIn, ClientType, ServerType, Ports
    <2>4. ClientCounts' /\ ServerCounts'
      BY <2>1, ClientEnters, ServerEnters
    <2>5. EndType' /\ NetworkType'
      BY <1>t, <2>1 DEF EndType, network, NetworkType, LossCount
    <2> QED
      BY <2>2, <2>3, <2>4, <2>5 DEF TypeInv
  <1>3. CASE SendAbort \/ HandleAbort
    <2>1. /\ UNCHANGED <<setup_vars, c_ready, client_vars, server_vars, accepted, network>>
          /\ abort' \in {"sent", "handled", "late"} /\ reply' \in {reply, "aborted"}
      BY <1>3 DEF SendAbort, HandleAbort, end_vars
    <2>2. \/ UNCHANGED server_setup
          \/ s_ready' = FALSE /\ s_open' = FALSE
             /\ active_udp_address' = Nobody /\ passive_client_address' = Nobody
      BY <1>3 DEF SendAbort, HandleAbort
    <2>3. ServerSetupType'
      <3>1. CASE UNCHANGED server_setup
        BY <1>t, <2>1, <3>1 DEF ServerSetupType, server_setup, setup_vars
      <3>2. CASE s_ready' = FALSE /\ s_open' = FALSE
                 /\ active_udp_address' = Nobody /\ passive_client_address' = Nobody
        <4>1. s_ready' \in BOOLEAN /\ s_open' \in BOOLEAN /\ ~s_ready'
          BY <3>2
        <4> QED
          BY <3>2, <4>1 DEF ServerSetupType, Ports
      <3> QED
        BY <2>2, <3>1, <3>2
    <2>4. SetupType' /\ ClientType' /\ ClientCounts'
      BY <1>t, <2>1 DEF setup_vars, client_vars, SetupType, ClientType, ClientCounts
    <2>5. ServerType' /\ ServerCounts'
      BY <1>t, <2>1 DEF server_vars, ServerType, ServerCounts
    <2>6. EndType' /\ NetworkType'
      BY <1>t, <2>1 DEF EndType, network, NetworkType, LossCount
    <2> QED
      BY <2>3, <2>4, <2>5, <2>6 DEF TypeInv
  <1>4. ASSUME NEW m \in Modes, NEW own \in BOOLEAN,
               Configure(m, IF own /\ m = "ACTIVE" THEN UserPort
                                                   ELSE Address("client", channel + 1))
        PROVE  TypeInv'
    <2>1. UserPort \in Addresses
          /\ (channel < MaxChannels => Address("client", channel + 1) \in Addresses)
      BY <1>t, TimersAssumption DEF UserPort, Address, Addresses, SetupType
    <2> QED
      BY <1>1, <1>4, <2>1
  <1> QED
    BY <1>2, <1>3, <1>4 DEF User

(* Losses and copies are counted, and a second passes only for a phase that  *)
(* has patience left.                                                        *)
LEMMA OtherTyped == TypeInv /\ (Network \/ Tick \/ UNCHANGED vars) => TypeInv'
  <1> SUFFICES ASSUME TypeInv, Network \/ Tick \/ UNCHANGED vars PROVE TypeInv'
    OBVIOUS
  <1>t. NetworkType /\ ClientCounts /\ ServerCounts
    BY DEF TypeInv
  <1>1. ASSUME NetworkOnly, NetworkType' PROVE TypeInv'
    <2>1. SetupType' /\ ServerSetupType' /\ EndType'
      BY <1>1 DEF NetworkOnly, setup_vars, server_setup, end_vars, TypeInv, SetupType,
                  ServerSetupType, EndType
    <2>2. ClientType' /\ ClientCounts'
      BY <1>1 DEF NetworkOnly, client_vars, TypeInv, ClientType, ClientCounts
    <2>3. ServerType' /\ ServerCounts'
      BY <1>1 DEF NetworkOnly, server_vars, TypeInv, ServerType, ServerCounts
    <2> QED
      BY <1>1, <2>1, <2>2, <2>3 DEF TypeInv
  <1>2. ASSUME NEW p \in fresh, Lose(p) PROVE TypeInv'
    <2>1. /\ fresh' \subseteq fresh /\ UNCHANGED <<late, copies>> /\ NetworkOnly
          /\ losses' = [losses EXCEPT ![LossKind(p)] = losses[LossKind(p)] + 1]
          /\ LossCount < MaxLosses
      BY <1>2 DEF Lose
    <2>2. LossKind(p) \in Loss
      BY DEF LossKind, Loss
    <2>3. \A k \in Loss : losses[k] \in Nat
      BY <1>t, TimersAssumption DEF NetworkType
    <2>4. /\ \A k \in Loss : losses'[k] = IF k = LossKind(p) THEN losses[k] + 1 ELSE losses[k]
          /\ losses' = [k \in Loss |-> losses'[k]]
      BY <1>t, <2>1, <2>2 DEF NetworkType
    <2>5. /\ losses["SYN"] \in Nat /\ losses["SYN-ACK"] \in Nat /\ losses["other"] \in Nat
          /\ losses["SYN"] + losses["SYN-ACK"] + losses["other"] < MaxLosses
      BY <2>1, <2>3 DEF Loss, LossCount
    <2>6. LossCount' = LossCount + 1
      BY <2>2, <2>4, <2>5 DEF LossCount, Loss
    <2>7. \A k \in Loss : losses'[k] \in 0..MaxLosses
      BY <2>2, <2>4, <2>5, TimersAssumption DEF Loss
    <2>8. losses' \in [Loss -> 0..MaxLosses]
      BY <2>4, <2>7
    <2>9. LossCount' \in 0..MaxLosses
      BY <2>1, <2>6, <1>t, TimersAssumption DEF NetworkType
    <2> QED
      BY <2>1, <2>8, <2>9, <1>1, <1>t DEF NetworkType
  <1>3. ASSUME NEW p \in fresh, Duplicate(p) PROVE TypeInv'
    <2>1. NetworkType'
      BY <1>3, <1>t, TimersAssumption DEF Duplicate, NetworkType, LossCount
    <2> QED
      BY <1>1, <1>3, <2>1 DEF Duplicate
  <1>4. ASSUME NEW p \in fresh, Discard(p) PROVE TypeInv'
    <2>1. NetworkType'
      BY <1>4, <1>t DEF Discard, NetworkType, LossCount
    <2> QED
      BY <1>1, <1>4, <2>1 DEF Discard
  <1>5. CASE Tick
    <2>1. /\ UNCHANGED <<setup_vars, c_ready, server_setup, c_phase, c_peer, c_tries,
                         s_phase, s_peer, s_tries, end_vars, accepted, network>>
          /\ c_phase \in Timed => c_waited < Patience[c_phase]
          /\ s_phase \in Timed => s_waited < Patience[s_phase]
          /\ c_waited' = IF c_phase \in Timed THEN c_waited + 1 ELSE c_waited
          /\ s_waited' = IF s_phase \in Timed THEN s_waited + 1 ELSE s_waited
      BY <1>5 DEF Tick
    <2>2. SetupType' /\ ServerSetupType' /\ EndType' /\ NetworkType'
      BY <2>1 DEF setup_vars, server_setup, end_vars, network, TypeInv, SetupType,
                  ServerSetupType, EndType, NetworkType, LossCount
    <2>3. ClientType' /\ ServerType'
      BY <2>1 DEF TypeInv, ClientType, ServerType
    <2>4. \A phase \in Timed : Patience[phase] \in Nat
      BY Patiences
    <2>5. ClientCounts'
      BY <1>t, <2>1, <2>4 DEF ClientCounts
    <2>6. ServerCounts'
      BY <1>t, <2>1, <2>4 DEF ServerCounts
    <2> QED
      BY <2>2, <2>3, <2>5, <2>6 DEF TypeInv
  <1>6. CASE UNCHANGED vars
    <2>1. NetworkOnly /\ UNCHANGED network
      BY <1>6 DEF vars, NetworkOnly
    <2> QED
      BY <2>1, <1>1, <1>t DEF network, NetworkType, LossCount
  <1> QED
    BY <1>2, <1>3, <1>4, <1>5, <1>6 DEF Network

(* The types hold throughout.                                                *)
LEMMA TypesAlways == Spec => []TypeInv
  <1>1. Init => TypeInv
    <2> SUFFICES ASSUME Init PROVE TypeInv
      OBVIOUS
    <2>1. SetupType /\ ServerSetupType /\ EndType
      <3>1. c_ready \in BOOLEAN /\ ~c_ready /\ s_ready \in BOOLEAN /\ ~s_ready /\ s_open \in BOOLEAN
        BY DEF Init
      <3>2. /\ channel = 0 /\ mode = "PASSIVE" /\ direction = "UPLOAD" /\ c_socket = Nobody
            /\ active_udp_address = Nobody /\ passive_client_address = Nobody
            /\ abort = "none" /\ reply = "none" /\ accepted = 0
        BY DEF Init
      <3> QED
        BY <3>1, <3>2, TimersAssumption
           DEF SetupType, ServerSetupType, EndType, Modes, Directions, Ports
    <2>2. ClientType /\ ServerType
      BY DEF Init, ClientType, ServerType, Ports
    <2>3. ClientCounts /\ ServerCounts
      BY Patiences, TimersAssumption DEF Init, ClientCounts, ServerCounts
    <2>4. NetworkType
      BY TimersAssumption DEF Init, NetworkType, LossCount, Loss
    <2> QED
      BY <2>1, <2>2, <2>3, <2>4 DEF TypeInv
  <1>2. TypeInv /\ [Next]_vars => TypeInv'
    BY ClientTyped, ServerTyped, UserTyped, OtherTyped DEF Next
  <1> QED
    BY <1>1, <1>2, PTL DEF Spec

(* Attempts and waiting times stay within the limits of data_channel.py,     *)
(* transfer_handler.py and rdt_core.py, and every value is of its type.      *)
THEOREM HandshakesAreTyped == Spec => []TypeOK
  <1>1. TypeInv => TypeOK
    <2> SUFFICES ASSUME TypeInv PROVE TypeOK
      OBVIOUS
    <2>1. /\ channel \in 0..MaxChannels /\ mode \in Modes /\ direction \in Directions
          /\ {c_socket, active_udp_address, passive_client_address, c_peer, s_peer}
               \subseteq Addresses \cup {Nobody, Anyone}
          /\ {c_ready, s_ready, s_open} \subseteq BOOLEAN
      BY DEF TypeInv, SetupType, ServerSetupType, ClientType, ServerType, Ports
    <2>2. ClientType /\ ClientCounts /\ ServerType /\ ServerCounts /\ EndType /\ NetworkType
      BY DEF TypeInv
    <2> QED
      BY <2>1, <2>2 DEF TypeOK, ClientType, ClientCounts, ServerType, ServerCounts, EndType,
                        NetworkType, Loss
  <1> QED
    BY <1>1, TypesAlways, PTL

-----------------------------------------------------------------------------
(* The passive handshake                                                     *)

Quiet(address) == \A p \in InFlight : p.to # address

(* A channel in which no transfer has begun yet.                             *)
Unused ==
  c_ready /\ c_phase = "idle" =>
    /\ s_phase = "idle"
    /\ Quiet(Server) /\ Quiet(c_socket)
    /\ passive_client_address = Nobody
    /\ s_ready => s_open

(* A SYN, or its answer, arrives before the second is over.                  *)
Pending ==
  \E p \in fresh : \/ p.to = Server /\ p.kind = "SYN"
                   \/ p.to = c_socket /\ p.kind = "SYN-ACK" /\ p.from = Server

(* The server waits for the client, which has not left its handshake.        *)
ServerWaits ==
  s_phase \in {"open", "discover"} =>
    /\ c_phase \in {"open", "syn"}
    /\ s_ready /\ s_open
    /\ s_phase = "open" => passive_client_address = Nobody
    /\ \A p \in InFlight : p.to = c_socket => p.kind # "SYN-ACK"

(* The client has not begun yet.                                             *)
ClientWaits ==
  c_phase = "open" => s_phase \in {"open", "discover"} /\ s_waited = 0 /\ Quiet(Server)

(* The client asks, each time without an answer a packet has been lost, and  *)
(* the server has not waited longer than the client.                         *)
ClientAsks ==
  c_phase = "syn" =>
    /\ s_phase \in {"open", "discover", "send", "recv"}
    /\ c_tries >= 1 /\ c_waited \in {0, 1}
    /\ s_phase = "discover" => 1 + s_waited <= c_tries + c_waited
    /\ s_phase \in {"send", "recv"} =>
         /\ s_peer = c_socket /\ s_tries >= 1
         /\ s_tries + s_waited <= c_tries + c_waited
    /\ \A p \in InFlight : p.to = Server => p.kind = "SYN"
    /\ c_tries <= LossCount \/ (c_waited = 0 /\ Pending /\ c_tries <= LossCount + 1)

NoneGivesUp == c_phase # "unopened" /\ s_phase # "unopened"

Calm == mode = "PASSIVE" /\ abort = "none" /\ LossCount < DataTimeout

Meeting == ServerWaits /\ ClientWaits /\ ClientAsks /\ NoneGivesUp

PassiveInv ==
  /\ mode = "PASSIVE" => Unused /\ c_phase # "await" /\ s_phase # "syn"
  /\ Calm => Meeting

(* The facts about numbers and addresses that the steps rely on.             *)
Basics ==
  /\ TypeInv /\ Routes
  /\ c_tries \in Nat /\ c_waited \in Nat /\ s_tries \in Nat /\ s_waited \in Nat
  /\ LossCount \in Nat /\ DataTimeout \in Nat \ {0}
  /\ c_phase # "idle" => c_ready
  /\ c_socket # Server
  /\ mode = "PASSIVE" => \A p \in InFlight : p.to = Server => p.from = c_socket

(* They follow from the types and the routes.                                *)
LEMMA BasicsHold == TypeInv /\ Routes => Basics
  <1> SUFFICES ASSUME TypeInv, Routes PROVE Basics
    OBVIOUS
  <1>1. \A phase \in Timed : Patience[phase] \in Nat
    BY Patiences
  <1>2. c_tries \in Nat /\ c_waited \in Nat
    BY <1>1, TimersAssumption DEF TypeInv, ClientCounts
  <1>3. s_tries \in Nat /\ s_waited \in Nat
    BY <1>1, TimersAssumption DEF TypeInv, ServerCounts
  <1>4. LossCount \in Nat /\ DataTimeout \in Nat \ {0} /\ (c_phase # "idle" => c_ready)
    BY TimersAssumption DEF TypeInv, NetworkType, ClientType
  <1>5. Server # c_socket
    BY Distinct DEF Routes
  <1>6. \A p \in InFlight : p.to = Server => p.from = c_socket
    BY DEF Routes, Routed
  <1> QED
    BY <1>2, <1>3, <1>4, <1>5, <1>6 DEF Basics

(* Each step of the client's worker keeps the handshake together.            *)
LEMMA ClientPassive == Basics /\ PassiveInv /\ Client => PassiveInv'
  <1> SUFFICES ASSUME Basics, PassiveInv, Client PROVE PassiveInv'
    OBVIOUS
  <1> USE DEF ClientIn
  <1>f. /\ UNCHANGED <<channel, mode, c_socket, s_phase, s_peer, s_tries, s_waited, abort>>
        /\ UNCHANGED <<s_ready, s_open, passive_client_address, losses>>
        /\ Server' = Server /\ LossCount' = LossCount
    <2>1. ClientOnly /\ UNCHANGED losses
      BY DEF Client, ClientOpens, ClientRetriesSyn, ClientAwaitTimeout, ClientResends,
             ClientRecvTimeout, ClientCancelled, ClientEnds, ClientReceivesSynAck,
             ClientReceivesSyn, ClientReceivesAck, ClientReceivesData, ClientReceivesFin,
             Sends, Takes, network
    <2> QED
      BY <2>1 DEF ClientOnly, setup_vars, server_setup, server_vars, end_vars, Server, LossCount
  <1> SUFFICES ASSUME mode = "PASSIVE" PROVE PassiveInv'
    BY <1>f DEF PassiveInv, Calm
  <1>p. Unused' /\ c_phase' # "await" /\ s_phase' # "syn"
    <2>1. c_phase # "await" /\ s_phase # "syn"
      BY DEF PassiveInv
    <2>2. c_phase' # "await" /\ (c_phase' # "idle" \/ ~c_ready')
      BY <2>1 DEF Client, ClientOpens, ClientRetriesSyn, ClientAwaitTimeout, ClientResends,
             ClientRecvTimeout, ClientCancelled, ClientEnds, ClientReceivesSynAck,
             ClientReceivesSyn, ClientReceivesAck, ClientReceivesData, ClientReceivesFin, ClientData
    <2> QED
      BY <1>f, <2>1, <2>2 DEF Unused
  <1> SUFFICES ASSUME Calm PROVE Meeting'
    BY <1>f, <1>p DEF PassiveInv, Calm
  <1>m. /\ ServerWaits /\ ClientWaits /\ ClientAsks /\ NoneGivesUp
        /\ c_phase # "await" /\ abort = "none" /\ LossCount < DataTimeout
    BY DEF PassiveInv, Calm, Meeting
  <1>l. ASSUME c_phase' \notin {"open", "syn", "unopened"}, s_phase \notin {"open", "discover"}
        PROVE  Meeting'
    BY <1>l, <1>f, <1>m DEF Meeting, ServerWaits, ClientWaits, ClientAsks, NoneGivesUp
  <1>b. c_phase \notin {"open", "syn"} => s_phase \notin {"open", "discover"}
    BY <1>m DEF ServerWaits
  <1>1. CASE ClientOpens
    <2>1. /\ c_phase = "open" /\ c_phase' = "syn" /\ c_tries' = 1 /\ c_waited' = 0
          /\ fresh' = fresh \cup {Packet("SYN", c_socket, Server)} /\ late' = late
      BY <1>1 DEF ClientOpens, Sends
    <2>2. s_phase \in {"open", "discover"} /\ s_waited = 0 /\ Quiet(Server)
      BY <1>m, <2>1 DEF ClientWaits
    <2> DEFINE syn == Packet("SYN", c_socket, Server)
    <2>3. syn.to = Server /\ syn.kind = "SYN" /\ syn.to # c_socket
      BY DEF Packet, Basics
    <2>4. InFlight' = InFlight \cup {syn} /\ syn \in fresh'
      BY <2>1 DEF InFlight
    <2> HIDE DEF syn
    <2>5. ServerWaits'
      BY <1>f, <1>m, <2>1, <2>2, <2>3, <2>4 DEF ServerWaits
    <2>6. Pending'
      BY <1>f, <2>3, <2>4 DEF Pending
    <2>7. LossCount \in Nat
      BY DEF Basics
    <2>8. \A p \in InFlight' : p.to = Server => p.kind = "SYN"
      BY <2>2, <2>3, <2>4 DEF Quiet
    <2>9. ClientAsks'
      BY <1>f, <2>1, <2>2, <2>6, <2>7, <2>8 DEF ClientAsks
    <2> QED
      BY <1>f, <1>m, <2>1, <2>5, <2>9 DEF Meeting, ClientWaits, NoneGivesUp
  <1>2. CASE ClientRetriesSyn
    <2>1. c_phase = "syn" /\ c_waited = 1
      BY <1>2 DEF ClientRetriesSyn
    <2>2. c_tries <= LossCount /\ c_tries < PASSIVE_HANDSHAKE_RETRIES
      BY <1>m, <2>1, PassiveTimersAssumption, TimersAssumption DEF ClientAsks, Basics
    <2>3. /\ c_phase' = "syn" /\ c_tries' = c_tries + 1 /\ c_waited' = 0
          /\ fresh' = fresh \cup {Packet("SYN", c_socket, Server)} /\ late' = late
      BY <1>2, <2>2 DEF ClientRetriesSyn, SynLeft, Sends
    <2> DEFINE syn == Packet("SYN", c_socket, Server)
    <2>4. syn.to = Server /\ syn.kind = "SYN" /\ syn.to # c_socket
      BY DEF Packet, Basics
    <2>5. InFlight' = InFlight \cup {syn} /\ syn \in fresh'
      BY <2>3 DEF InFlight
    <2> HIDE DEF syn
    <2>6. ServerWaits'
      BY <1>f, <1>m, <2>1, <2>3, <2>4, <2>5 DEF ServerWaits
    <2>7. Pending'
      BY <1>f, <2>4, <2>5 DEF Pending
    <2>8. \A p \in InFlight' : p.to = Server => p.kind = "SYN"
      BY <1>m, <2>1, <2>4, <2>5 DEF ClientAsks
    <2>9. ClientAsks'
      BY <1>f, <1>m, <2>1, <2>2, <2>3, <2>7, <2>8 DEF ClientAsks, Basics
    <2> QED
      BY <1>f, <1>m, <2>3, <2>6, <2>9 DEF Meeting, ClientWaits, NoneGivesUp
  <1>3. CASE ClientAwaitTimeout
    BY <1>3, <1>m DEF ClientAwaitTimeout
  <1>4. CASE ClientResends
    BY <1>4, <1>l, <1>b DEF ClientResends
  <1>5. CASE ClientRecvTimeout
    BY <1>5, <1>l, <1>b DEF ClientRecvTimeout
  <1>6. CASE ClientCancelled
    BY <1>6, <1>m DEF ClientCancelled
  <1>7. CASE ClientEnds
    BY <1>7, <1>l, <1>b DEF ClientEnds
  <1>8. ASSUME NEW p \in InFlight,
               \/ ClientReceivesSynAck(p) \/ ClientReceivesSyn(p) \/ ClientReceivesAck(p)
               \/ ClientReceivesData(p) \/ ClientReceivesFin(p)
        PROVE  Meeting'
    <2>1. CASE ClientReceivesSynAck(p)
      <3>1. /\ c_phase = "syn" /\ p.to = c_socket /\ p.kind = "SYN-ACK"
            /\ c_phase' \in {"send", "recv"}
        BY <2>1 DEF ClientReceivesSynAck, ClientWantsSynAck, ClientGets, ClientData
      <3>2. s_phase \notin {"open", "discover"}
        BY <1>m, <3>1 DEF ServerWaits
      <3> QED
        BY <3>1, <3>2, <1>l
    <2>2. CASE ClientReceivesSyn(p)
      BY <2>2, <1>m DEF ClientReceivesSyn, ClientWantsSyn
    <2>3. CASE ClientReceivesAck(p)
      BY <2>3, <1>l, <1>b DEF ClientReceivesAck, ClientWantsAck
    <2>4. CASE ClientReceivesData(p)
      BY <2>4, <1>l, <1>b DEF ClientReceivesData, ClientWantsData
    <2>5. CASE ClientReceivesFin(p)
      BY <2>5, <1>l, <1>b DEF ClientReceivesFin, ClientWantsFin
    <2> QED
      BY <1>8, <2>1, <2>2, <2>3, <2>4, <2>5
  <1> QED
    BY <1>1, <1>2, <1>3, <1>4, <1>5, <1>6, <1>7, <1>8 DEF Client, InFlight

(* Each step of the server's worker keeps the handshake together.            *)
LEMMA ServerPassive == Basics /\ PassiveInv /\ ServerStep => PassiveInv'
  <1> SUFFICES ASSUME Basics, PassiveInv, ServerStep PROVE PassiveInv'
    OBVIOUS
  <1> USE DEF ServerIn
  <1>f. /\ UNCHANGED <<channel, mode, c_socket, c_ready, c_phase, c_tries, c_waited>>
        /\ abort' = abort /\ losses' = losses /\ Server' = Server /\ LossCount' = LossCount
    <2>1. ServerOnly /\ UNCHANGED losses
      BY DEF ServerStep, ServerOpens, DiscoverTimeout, ServerRetriesSyn, ServerResends,
             ServerRecvTimeout, ServerCancelled, ServerFinishes, ServerDiscovers,
             ServerReceivesSynAck, ServerAnswersSynAgain, ServerReceivesAck, ServerReceivesData,
             ServerReceivesFin, Sends, Takes, network
    <2> QED
      BY <2>1 DEF ServerOnly, setup_vars, client_vars, Server, LossCount
  <1> SUFFICES ASSUME mode = "PASSIVE" PROVE PassiveInv'
    BY <1>f DEF PassiveInv, Calm
  <1>p. Unused' /\ c_phase' # "await" /\ s_phase' # "syn"
    <2>1. c_phase # "await" /\ s_phase # "syn" /\ Unused
      BY DEF PassiveInv
    <2>2. s_phase' # "syn"
      BY <2>1 DEF ServerStep, ServerOpens, DiscoverTimeout, ServerRetriesSyn, ServerResends,
             ServerRetriesSyn, ServerRecvTimeout, ServerCancelled, ServerFinishes, ServerDiscovers,
             ServerReceivesSynAck, ServerAnswersSynAgain, ServerReceivesAck, ServerReceivesData,
             ServerReceivesFin, ServerData
    <2>3. s_phase # "idle"
      BY DEF ServerStep, ServerOpens, DiscoverTimeout, ServerRetriesSyn, ServerResends,
             ServerRecvTimeout, ServerCancelled, ServerFinishes, ServerDiscovers, ServerWantsSyn,
             ServerReceivesSynAck, ServerAnswersSynAgain, ServerWantsSynAgain, ServerReceivesAck,
             ServerWantsAck, ServerReceivesData, ServerWantsData, ServerReceivesFin,
             ServerWantsFin, Over
    <2> QED
      BY <1>f, <2>1, <2>2, <2>3 DEF Unused
  <1> SUFFICES ASSUME Calm PROVE Meeting'
    BY <1>f, <1>p DEF PassiveInv, Calm
  <1>m. /\ ServerWaits /\ ClientWaits /\ ClientAsks /\ NoneGivesUp
        /\ s_phase # "syn" /\ mode = "PASSIVE" /\ abort = "none" /\ LossCount < DataTimeout
    BY DEF PassiveInv, Calm, Meeting
  <1>l. ASSUME s_phase' \notin {"open", "discover", "unopened"},
               s_phase \notin {"open", "discover"}, c_phase # "syn"
        PROVE  Meeting'
    BY <1>l, <1>f, <1>m DEF Meeting, ServerWaits, ClientWaits, ClientAsks, NoneGivesUp
  <1>b. c_phase = "syn" => s_phase \in {"open", "discover", "send", "recv"}
    BY <1>m DEF ClientAsks
  <1>n. /\ c_tries \in Nat /\ c_waited \in Nat /\ s_tries \in Nat /\ s_waited \in Nat
        /\ LossCount \in Nat /\ DataTimeout \in Nat \ {0}
    BY DEF Basics
  <1>w. c_phase = "syn" => c_tries + c_waited <= DataTimeout /\ c_tries >= 1
    BY <1>m, <1>n DEF ClientAsks
  <1>1. CASE ServerOpens
    <2>1. s_phase = "open"
      BY <1>1 DEF ServerOpens
    <2>2. s_phase' = "discover" /\ s_waited' = 0 /\ UNCHANGED network
          /\ UNCHANGED <<s_ready, s_open, passive_client_address>>
      BY <1>1, <1>m, <2>1 DEF ServerOpens, ServerWaits, SetupKept, server_setup
    <2>3. InFlight' = InFlight /\ fresh' = fresh
      BY <2>2 DEF network, InFlight
    <2>4. ServerWaits'
      BY <1>f, <1>m, <2>1, <2>2, <2>3 DEF ServerWaits
    <2>5. ClientWaits'
      BY <1>f, <1>m, <2>2, <2>3 DEF ClientWaits, Quiet
    <2>6. Pending' = Pending
      BY <1>f, <2>3 DEF Pending
    <2>7. ClientAsks'
      BY <1>f, <1>m, <1>n, <2>2, <2>3, <2>6 DEF ClientAsks
    <2> QED
      BY <1>f, <1>m, <2>2, <2>4, <2>5, <2>7 DEF Meeting, NoneGivesUp
  <1>2. CASE DiscoverTimeout
    <2>1. s_phase = "discover" /\ s_waited = PASSIVE_DISCOVERY_TIMEOUT
      BY <1>2 DEF DiscoverTimeout
    <2>2. c_phase \in {"open", "syn"}
      BY <1>m, <2>1 DEF ServerWaits
    <2>3. CASE c_phase = "open"
      BY <1>m, <2>1, <2>3, TimersAssumption DEF ClientWaits
    <2>4. CASE c_phase = "syn"
      <3>1. 1 + s_waited <= c_tries + c_waited
        BY <1>m, <2>1, <2>4 DEF ClientAsks
      <3> QED
        BY <1>n, <1>w, <2>1, <2>4, <3>1, PassiveTimersAssumption, TimersAssumption
    <2> QED
      BY <2>2, <2>3, <2>4
  <1>3. CASE ServerRetriesSyn
    BY <1>3, <1>m DEF ServerRetriesSyn
  <1>4. ASSUME c_phase = "syn", s_phase \in {"send", "recv"}, s_phase' = s_phase, s_peer' = s_peer,
               s_tries' \in Nat, s_waited' \in Nat, s_tries' >= 1,
               s_tries' + s_waited' <= c_tries + c_waited,
               \A q \in InFlight' : q \in InFlight \/ q.to # Server,
               Pending => Pending'
        PROVE  Meeting'
    <2>1. /\ s_peer = c_socket /\ c_tries >= 1 /\ c_waited \in {0, 1}
          /\ \A p \in InFlight : p.to = Server => p.kind = "SYN"
          /\ c_tries <= LossCount \/ (c_waited = 0 /\ Pending /\ c_tries <= LossCount + 1)
      BY <1>4, <1>m DEF ClientAsks
    <2>2. \A p \in InFlight' : p.to = Server => p.kind = "SYN"
      BY <1>4, <2>1
    <2>3. ClientAsks'
      BY <1>4, <1>f, <2>1, <2>2 DEF ClientAsks
    <2> QED
      BY <1>4, <1>f, <2>3 DEF Meeting, ServerWaits, ClientWaits, NoneGivesUp
  <1>5. CASE ServerResends
    <2>1. s_phase \in {"send", "fin"} /\ s_waited = 1
      BY <1>5 DEF ServerResends
    <2>2. CASE c_phase = "syn"
      <3>1. s_phase = "send" /\ s_tries + 1 <= c_tries + c_waited /\ s_tries >= 1 /\ s_peer = c_socket
        BY <1>b, <1>m, <2>1, <2>2 DEF ClientAsks
      <3>2. s_tries < DataTimeout
        BY <3>1, <2>2, <1>w, <1>n
      <3> DEFINE data == Packet("DATA", Server, s_peer)
      <3>3. /\ s_phase' = s_phase /\ s_peer' = s_peer /\ s_tries' = s_tries + 1 /\ s_waited' = 0
            /\ fresh' = fresh \cup {data} /\ late' = late
        BY <1>5, <3>1, <3>2 DEF ServerResends, Sends
      <3>4. data.to # Server
        BY <3>1 DEF Packet, Basics
      <3> HIDE DEF data
      <3>5. \A q \in InFlight' : q \in InFlight \/ q.to # Server
        BY <3>3, <3>4 DEF InFlight
      <3>6. Pending => Pending'
        BY <3>3, <1>f DEF Pending
      <3> QED
        BY <1>4, <1>n, <2>2, <3>1, <3>3, <3>5, <3>6
    <2>3. CASE c_phase # "syn"
      BY <1>5, <1>l, <2>1, <2>3 DEF ServerResends
    <2> QED
      BY <2>2, <2>3
  <1>6. CASE ServerRecvTimeout
    <2>1. CASE c_phase = "syn"
      <3>1. s_phase = "recv" /\ s_waited = DataTimeout
        BY <1>6, <1>b, <2>1 DEF ServerRecvTimeout
      <3>2. s_tries + s_waited <= c_tries + c_waited /\ s_tries >= 1
        BY <1>m, <2>1, <3>1 DEF ClientAsks
      <3> QED
        BY <3>1, <3>2, <2>1, <1>n, <1>w
    <2>2. CASE c_phase # "syn"
      BY <1>6, <1>l, <2>2 DEF ServerRecvTimeout
    <2> QED
      BY <2>1, <2>2
  <1>7. CASE ServerCancelled
    BY <1>7, <1>m DEF ServerCancelled
  <1>8. CASE ServerFinishes
    BY <1>8, <1>l, <1>b DEF ServerFinishes, Over
  <1>9. ASSUME NEW p \in InFlight,
               \/ ServerDiscovers(p) \/ ServerReceivesSynAck(p) \/ ServerAnswersSynAgain(p)
               \/ ServerReceivesAck(p) \/ ServerReceivesData(p) \/ ServerReceivesFin(p)
        PROVE  Meeting'
    <2>1. p.to = Server => p.from = c_socket
      BY <1>m DEF Basics
    <2>2. c_phase = "syn" /\ p.to = Server => p.kind = "SYN"
      BY <1>m DEF ClientAsks
    <2>3. CASE ServerDiscovers(p)
      <3>1. /\ s_phase = "discover" /\ p.to = Server /\ p.kind = "SYN" /\ p.from = c_socket
            /\ s_open
        BY <2>1, <2>3, <1>m DEF ServerDiscovers, ServerWantsSyn, ServerGets, ServerWaits
      <3>2. c_phase = "syn"
        BY <3>1, <1>m DEF ServerWaits, ClientWaits, Quiet
      <3> DEFINE out == {SynAck(c_socket)} \cup ServerSends(c_socket)
      <3>3. /\ s_phase' \in {"send", "recv"} /\ s_peer' = c_socket /\ s_tries' = 1 /\ s_waited' = 0
            /\ Takes(p, out)
        BY <2>3, <3>1 DEF ServerDiscovers, ServerData
      <3>4. \A q \in out : q.to # Server
        BY DEF SynAck, Packet, ServerSends, Basics
      <3>5. \E q \in out : q.to = c_socket /\ q.kind = "SYN-ACK" /\ q.from = Server
        <4>1. SynAck(c_socket) \in out
          OBVIOUS
        <4>2. SynAck(c_socket).to = c_socket /\ SynAck(c_socket).kind = "SYN-ACK"
              /\ SynAck(c_socket).from = Server
          BY DEF SynAck, Packet
        <4> QED
          BY <4>1, <4>2
      <3> HIDE DEF out
      <3>6. out \subseteq fresh' /\ InFlight' \subseteq InFlight \cup out
        BY <3>3 DEF Takes, InFlight
      <3>7. Pending'
        BY <1>f, <3>5, <3>6 DEF Pending
      <3>8. \A q \in InFlight' : q.to = Server => q.kind = "SYN"
        BY <1>m, <3>2, <3>4, <3>6 DEF ClientAsks
      <3>9. c_tries >= 1 /\ c_waited \in {0, 1}
            /\ (c_tries <= LossCount \/ (c_waited = 0 /\ c_tries <= LossCount + 1))
        BY <1>m, <3>2 DEF ClientAsks
      <3>10. ClientAsks'
        BY <1>f, <1>n, <3>2, <3>3, <3>7, <3>8, <3>9 DEF ClientAsks
      <3> QED
        BY <1>f, <3>2, <3>3, <3>10 DEF Meeting, ServerWaits, ClientWaits, NoneGivesUp
    <2>4. CASE ServerReceivesSynAck(p)
      BY <2>4, <1>m DEF ServerReceivesSynAck
    <2>5. CASE ServerAnswersSynAgain(p)
      <3>1. /\ s_phase \in {"send", "recv"} /\ p.to = Server /\ p.kind = "SYN" /\ p.from = s_peer
            /\ s_phase' = s_phase /\ s_peer' = s_peer /\ s_tries' = 1 /\ s_waited' = 0
            /\ Takes(p, {SynAck(s_peer)})
        BY <2>5 DEF ServerAnswersSynAgain, ServerWantsSynAgain, ServerGets
      <3>2. CASE c_phase = "syn"
        <4>1. s_peer = c_socket
          BY <2>1, <3>1
        <4> DEFINE answer == SynAck(s_peer)
        <4>2. answer.to = c_socket /\ answer.kind = "SYN-ACK" /\ answer.from = Server
              /\ answer.to # Server
          BY <4>1 DEF SynAck, Packet, Basics
        <4>3. Takes(p, {answer})
          BY <3>1
        <4> HIDE DEF answer
        <4>6. answer \in fresh' /\ InFlight' \subseteq InFlight \cup {answer}
          BY <4>3 DEF Takes, InFlight
        <4>4. Pending'
          BY <1>f, <4>2, <4>6 DEF Pending
        <4>5. s_tries' + s_waited' <= c_tries + c_waited
          BY <3>1, <3>2, <1>n, <1>w
        <4> QED
          BY <1>4, <3>1, <3>2, <4>2, <4>6, <4>4, <4>5
      <3>3. CASE c_phase # "syn"
        BY <1>l, <3>1, <3>3
      <3> QED
        BY <3>2, <3>3
    <2>6. CASE ServerReceivesAck(p)
      BY <2>6, <2>2, <1>l DEF ServerReceivesAck, ServerWantsAck, ServerGets
    <2>7. CASE ServerReceivesData(p)
      BY <2>7, <2>2, <1>l DEF ServerReceivesData, ServerWantsData, ServerGets
    <2>8. CASE ServerReceivesFin(p)
      BY <2>8, <2>2, <1>l DEF ServerReceivesFin, ServerWantsFin, ServerGets
    <2> QED
      BY <1>9, <2>3, <2>4, <2>5, <2>6, <2>7, <2>8
  <1> QED
    BY <1>1, <1>2, <1>3, <1>5, <1>6, <1>7, <1>8, <1>9 DEF ServerStep, InFlight

(* PASV begins a channel to which nothing is under way; its transfer begins  *)
(* at both ends; ABOR ends what is promised.                                 *)
LEMMA UserPassive == Basics /\ PassiveInv /\ User => PassiveInv'
  <1> SUFFICES ASSUME Basics, PassiveInv, User PROVE PassiveInv'
    OBVIOUS
  <1>1. ASSUME NEW m \in Modes, NEW own \in BOOLEAN, NEW address,
               address = IF own /\ m = "ACTIVE" THEN UserPort ELSE Address("client", channel + 1),
               Configure(m, address)
        PROVE  PassiveInv'
    <2> SUFFICES ASSUME m = "PASSIVE" PROVE PassiveInv'
      BY <1>1 DEF Configure, PassiveInv, Calm
    <2>1. address = Address("client", channel + 1)
      BY <1>1
    <2>2. /\ c_phase' = "idle" /\ s_phase' = "idle" /\ c_socket' = address
          /\ passive_client_address' = Nobody /\ s_open' = TRUE
          /\ InFlight' = {p \in InFlight : p.to = address}
      BY <1>1 DEF Configure, client_vars, server_vars, ForOpenSockets, InFlight
    <2>3. address \notin Known
      BY <2>1 DEF Basics, Routes, OwnSocket, Known, Address, Nobody, Anyone
    <2>4. \A p \in InFlight : p.to \in Known
      BY DEF Basics, Routes, Routed
    <2>5. Quiet(Server)' /\ Quiet(c_socket)'
      BY <2>2, <2>3, <2>4 DEF Quiet
    <2> QED
      BY <2>2, <2>5 DEF PassiveInv, Unused, Meeting, ServerWaits, ClientWaits, ClientAsks,
                        NoneGivesUp
  <1>2. ASSUME NEW d \in Directions, Begin(d) PROVE PassiveInv'
    <2>1. /\ UNCHANGED <<channel, mode, c_socket, c_ready, server_setup, network>>
          /\ c_phase = "idle" /\ c_ready /\ s_ready
          /\ c_phase' = "open" /\ s_phase' = "open" /\ s_waited' = 0
      BY <1>2 DEF Begin, ClientIn, ServerIn
    <2>2. InFlight' = InFlight /\ Server' = Server
      BY <2>1 DEF network, InFlight, Server
    <2> SUFFICES ASSUME mode = "PASSIVE" PROVE PassiveInv'
      BY <2>1 DEF PassiveInv, Calm
    <2>3. Quiet(Server) /\ Quiet(c_socket) /\ passive_client_address = Nobody /\ s_open
      BY <2>1 DEF PassiveInv, Unused
    <2>4. ServerWaits'
      BY <2>1, <2>2, <2>3 DEF ServerWaits, Quiet, server_setup
    <2>5. ClientWaits'
      BY <2>1, <2>2, <2>3 DEF ClientWaits, Quiet
    <2> QED
      BY <2>1, <2>4, <2>5 DEF PassiveInv, Unused, Meeting, ClientAsks, NoneGivesUp
  <1>3. CASE SendAbort \/ HandleAbort
    <2>1. /\ UNCHANGED <<setup_vars, c_ready, client_vars, server_vars, network>>
          /\ abort' # "none"
      BY <1>3 DEF SendAbort, HandleAbort
    <2>2. \/ UNCHANGED server_setup
          \/ ~s_ready' /\ passive_client_address' = Nobody
      BY <1>3 DEF SendAbort, HandleAbort
    <2>3. /\ UNCHANGED <<mode, c_socket, c_ready, c_phase, s_phase>>
          /\ InFlight' = InFlight /\ Server' = Server
      BY <2>1 DEF setup_vars, client_vars, server_vars, network, InFlight, Server
    <2>4. mode = "PASSIVE" => Unused'
      BY <2>2, <2>3 DEF PassiveInv, Unused, Quiet, server_setup
    <2> QED
      BY <2>1, <2>3, <2>4 DEF PassiveInv, Calm
  <1> QED
    BY <1>1, <1>2, <1>3 DEF User

(* A packet that is lost pays for the next attempt; a second passes for both *)
(* ends; what an end waits for is not skipped.                               *)
LEMMA OtherPassive == Basics /\ PassiveInv /\ (Network \/ Tick \/ UNCHANGED vars) => PassiveInv'
  <1> SUFFICES ASSUME Basics, PassiveInv, Network \/ Tick \/ UNCHANGED vars PROVE PassiveInv'
    OBVIOUS
  <1>n. /\ c_tries \in Nat /\ c_waited \in Nat /\ s_tries \in Nat /\ s_waited \in Nat
        /\ LossCount \in Nat /\ DataTimeout \in Nat \ {0}
    BY DEF Basics
  <1>f. /\ UNCHANGED <<channel, mode, c_socket, c_ready, s_ready, s_open, passive_client_address>>
        /\ UNCHANGED <<c_phase, c_tries, s_phase, s_peer, s_tries, abort>>
        /\ Server' = Server /\ InFlight' \subseteq InFlight
    BY DEF Network, Lose, Duplicate, Discard, NetworkOnly, Tick, vars, setup_vars, server_setup,
           client_vars, server_vars, end_vars, network, InFlight, Server
  <1>q. \A address : Quiet(address) => Quiet(address)'
    BY <1>f DEF Quiet
  <1> SUFFICES ASSUME mode = "PASSIVE" PROVE PassiveInv'
    BY <1>f DEF PassiveInv, Calm
  <1>p. Unused' /\ c_phase' # "await" /\ s_phase' # "syn"
    BY <1>f, <1>q DEF PassiveInv, Unused
  <1>1. ASSUME (LossCount' = LossCount /\ (Pending => Pending')) \/ LossCount' = LossCount + 1,
               UNCHANGED <<c_waited, s_waited>>, Calm'
        PROVE  PassiveInv'
    <2>1. Calm
      BY <1>1, <1>f, <1>n DEF Calm
    <2>2. ServerWaits /\ ClientWaits /\ ClientAsks /\ NoneGivesUp
      BY <2>1 DEF PassiveInv, Meeting
    <2>3. ServerWaits' /\ ClientWaits' /\ NoneGivesUp'
      BY <1>1, <1>f, <1>q, <2>2 DEF ServerWaits, ClientWaits, NoneGivesUp
    <2>4. c_phase = "syn" =>
            /\ c_tries >= 1 /\ c_waited \in {0, 1}
            /\ c_tries <= LossCount \/ (c_waited = 0 /\ Pending /\ c_tries <= LossCount + 1)
      BY <2>2 DEF ClientAsks
    <2>5. c_phase = "syn" =>
            c_tries <= LossCount' \/ (c_waited = 0 /\ Pending' /\ c_tries <= LossCount' + 1)
      <3>1. CASE LossCount' = LossCount /\ (Pending => Pending')
        BY <2>4, <3>1
      <3>2. CASE LossCount' = LossCount + 1
        BY <2>4, <3>2, <1>n
      <3> QED
        BY <1>1, <3>1, <3>2
    <2>6. ClientAsks'
      BY <1>1, <1>f, <2>2, <2>5 DEF ClientAsks
    <2> QED
      BY <1>p, <2>3, <2>6 DEF PassiveInv, Meeting
  <1>2. ASSUME NEW p \in fresh, Lose(p) PROVE PassiveInv'
    <2>1. LossCount' = LossCount + 1
      <3>1. LossKind(p) \in Loss /\ losses \in [Loss -> Nat]
        BY TimersAssumption DEF LossKind, Loss, Basics, TypeInv, NetworkType
      <3>2. \A k \in Loss : losses'[k] = IF k = LossKind(p) THEN losses[k] + 1 ELSE losses[k]
        BY <1>2, <3>1 DEF Lose
      <3>3. losses["SYN"] \in Nat /\ losses["SYN-ACK"] \in Nat /\ losses["other"] \in Nat
        BY <3>1 DEF Loss
      <3> QED
        BY <3>1, <3>2, <3>3 DEF Loss, LossCount
    <2>2. UNCHANGED <<c_waited, s_waited>>
      BY <1>2 DEF Lose, NetworkOnly, client_vars, server_vars
    <2> QED
      BY <1>1, <1>n, <1>p, <2>1, <2>2 DEF PassiveInv
  <1>3. ASSUME NEW p \in fresh, Duplicate(p) PROVE PassiveInv'
    <2>1. LossCount' = LossCount /\ fresh' = fresh /\ UNCHANGED <<c_waited, s_waited>>
      BY <1>3 DEF Duplicate, NetworkOnly, client_vars, server_vars, LossCount
    <2>2. Pending => Pending'
      BY <2>1, <1>f DEF Pending
    <2> QED
      BY <1>1, <1>n, <1>p, <2>1, <2>2 DEF PassiveInv
  <1>4. ASSUME NEW p \in fresh, Discard(p) PROVE PassiveInv'
    <2>1. /\ LossCount' = LossCount /\ fresh' = fresh \ {p} /\ UNCHANGED <<c_waited, s_waited>>
          /\ c_phase # "open" /\ s_phase # "open" /\ ~Wanted(p)
      BY <1>4 DEF Discard, NetworkOnly, client_vars, server_vars, LossCount
    <2>2. CASE Calm /\ c_phase = "syn"
      <3>1. s_phase \in {"discover", "send", "recv"}
            /\ (s_phase \in {"send", "recv"} => s_peer = c_socket)
        BY <2>1, <2>2 DEF PassiveInv, Meeting, ClientAsks
      <3>2. p.to = Server => p.from = c_socket
        BY DEF Basics, InFlight
      <3>3. ~(p.to = Server /\ p.kind = "SYN")
        BY <2>1, <3>1, <3>2 DEF Wanted, ServerWantsSyn, ServerWantsSynAgain, ServerGets
      <3>4. ~(p.to = c_socket /\ p.kind = "SYN-ACK" /\ p.from = Server)
        BY <2>1, <2>2 DEF Wanted, ClientWantsSynAck, ClientGets, Basics
      <3>5. Pending => Pending'
        BY <2>1, <1>f, <3>3, <3>4 DEF Pending
      <3> QED
        BY <1>1, <1>n, <1>p, <2>1, <3>5 DEF PassiveInv
    <2>3. CASE ~Calm
      BY <2>1, <2>3, <1>f, <1>p DEF PassiveInv, Calm
    <2>4. CASE Calm /\ c_phase # "syn"
      <3>1. ServerWaits /\ ClientWaits /\ NoneGivesUp
        BY <2>4 DEF PassiveInv, Meeting
      <3> QED
        BY <2>1, <2>4, <3>1, <1>f, <1>p, <1>q
           DEF PassiveInv, Meeting, ServerWaits, ClientWaits, ClientAsks, NoneGivesUp
    <2> QED
      BY <2>2, <2>3, <2>4
  <1>5. CASE Tick
    <2>1. /\ fresh = {} /\ c_phase # "open" /\ s_phase # "open"
          /\ c_phase \in Timed => c_waited < Patience[c_phase]
          /\ c_waited' = IF c_phase \in Timed THEN c_waited + 1 ELSE c_waited
          /\ s_waited' = IF s_phase \in Timed THEN s_waited + 1 ELSE s_waited
          /\ LossCount' = LossCount
      BY <1>5 DEF Tick, network, LossCount
    <2>2. ~Pending
      BY <2>1 DEF Pending
    <2> SUFFICES ASSUME Calm PROVE Meeting'
      BY <1>f, <1>p, <2>1 DEF PassiveInv, Calm
    <2>3. ServerWaits /\ ClientWaits /\ ClientAsks /\ NoneGivesUp
      BY DEF PassiveInv, Meeting
    <2>4. c_phase = "syn" =>
            /\ c_waited = 0 /\ c_waited' = 1 /\ s_phase \in {"discover", "send", "recv"}
            /\ s_waited' = s_waited + 1 /\ c_tries <= LossCount
      BY <1>n, <2>1, <2>2, <2>3, Patiences DEF ClientAsks
    <2>5. ClientAsks'
      BY <1>f, <1>n, <2>1, <2>3, <2>4 DEF ClientAsks
    <2> QED
      BY <1>f, <2>1, <2>3, <2>5 DEF Meeting, ServerWaits, ClientWaits, NoneGivesUp
  <1>6. CASE UNCHANGED vars
    <2>1. LossCount' = LossCount /\ fresh' = fresh /\ UNCHANGED <<c_waited, s_waited>>
      BY <1>6 DEF vars, client_vars, server_vars, network, LossCount
    <2>2. Pending => Pending'
      BY <2>1, <1>f DEF Pending
    <2> QED
      BY <1>1, <1>n, <1>p, <2>1, <2>2 DEF PassiveInv
  <1> QED
    BY <1>2, <1>3, <1>4, <1>5, <1>6 DEF Network

(* README.md:52, for any number of channels and copies: as long as fewer     *)
(* packets are lost than the data phase has seconds, no end gives up a       *)
(* passive handshake, although a server whose SYN-ACK was lost has left it.  *)
THEOREM PassiveHandshakeSurvives == Spec => []PassiveChannelOpens
  <1>1. Init => PassiveInv
    BY DEF Init, PassiveInv, Unused, Meeting, ServerWaits, ClientWaits, ClientAsks, NoneGivesUp
  <1>2. TypeInv /\ Routes /\ PassiveInv /\ [Next]_vars => PassiveInv'
    BY BasicsHold, ClientPassive, ServerPassive, UserPassive, OtherPassive DEF Next
  <1>3. PassiveInv => PassiveChannelOpens
    BY DEF PassiveInv, Calm, Meeting, NoneGivesUp, PassiveChannelOpens
  <1> QED
    BY <1>1, <1>2, <1>3, TypesAlways, RoutesHold, PTL DEF Spec

-----------------------------------------------------------------------------
(* The handshake of an active upload                                         *)

(* A channel in which no transfer has begun yet.                             *)
Silent ==
  c_ready /\ c_phase = "idle" => s_phase = "idle" /\ Quiet(Server) /\ Quiet(c_socket)

LostSyns == losses["SYN"]

(* The server has not asked yet, or asks.                                    *)
ServerAsks ==
  s_phase \in {"open", "syn"} =>
    /\ c_phase \in {"open", "await", "send"}
    /\ \A p \in InFlight : p.to = c_socket => p.kind = "SYN"
    /\ s_phase = "open" => c_phase # "send" /\ s_ready /\ Quiet(c_socket)
    /\ s_phase = "syn" => s_tries >= 1 /\ s_waited \in {0, 1}

SynArrives == \E p \in fresh : p.to = c_socket /\ p.kind = "SYN"

(* The client waits, no longer than the server asks; a second without an     *)
(* answer has cost a SYN.                                                    *)
ClientAwaits ==
  c_phase \in {"open", "await"} =>
    /\ s_phase \in {"open", "syn"} /\ Quiet(Server)
    /\ c_phase = "open" \/ s_phase = "open" => c_waited = 0
    /\ s_phase = "syn" =>
         /\ c_waited + 1 <= s_tries + s_waited
         /\ s_tries <= LostSyns \/ (s_waited = 0 /\ SynArrives /\ s_tries <= LostSyns + 1)

(* The client has answered, and the answer arrives in this second, be it     *)
(* after the data.                                                           *)
Answered ==
  c_phase = "send" /\ s_phase = "syn" =>
    Packet("SYN-ACK", c_socket, Server) \in fresh /\ c_waited = 0

(* Nothing so far could end the handshake but data that overtakes.           *)
AnswerKept ==
  /\ mode = "ACTIVE" /\ direction = "UPLOAD" /\ ~OnReusedPort /\ abort = "none"
  /\ losses["SYN-ACK"] = 0 /\ LostSyns < ACTIVE_HANDSHAKE_RETRIES

Opening == ServerAsks /\ ClientAwaits /\ Answered

ActiveInv ==
  /\ ~OnReusedPort => Silent
  /\ mode = "ACTIVE" => c_phase # "syn" /\ s_phase # "discover"
  /\ AnswerKept => Opening

(* The facts about numbers and addresses that the steps rely on.             *)
Givens ==
  /\ Basics
  /\ losses \in [Loss -> Nat] /\ LostSyns \in Nat
  /\ \A p \in InFlight : p \in Packets /\ p.to \in Known /\ (p.to = Server => p.from = c_socket)
  /\ ~OnReusedPort /\ mode = "ACTIVE" /\ c_ready =>
       \A p \in InFlight : p.to = c_socket => p.from = Server
  /\ s_ready /\ mode = "ACTIVE" => active_udp_address = c_socket
  /\ s_phase = "syn" => s_peer = c_socket

(* They follow from the types and the routes.                                *)
LEMMA GivensHold == TypeInv /\ Routes => Givens
  <1> SUFFICES ASSUME TypeInv, Routes PROVE Givens
    OBVIOUS
  <1>1. losses \in [Loss -> Nat]
    BY TimersAssumption DEF TypeInv, NetworkType
  <1>2. LostSyns \in Nat
    BY <1>1 DEF LostSyns, Loss
  <1>3. \A p \in InFlight : p \in Packets
    BY DEF TypeInv, NetworkType, InFlight
  <1>4. ~OnReusedPort /\ mode = "ACTIVE" /\ c_ready => c_socket \notin {Nobody, UserPort}
    BY DEF Routes, OwnSocket, OnReusedPort
  <1>5. Nobody \notin Addresses
    BY DEF Nobody, Address, Addresses
  <1>6. s_ready /\ mode = "ACTIVE" => active_udp_address = c_socket
    BY <1>5 DEF TypeInv, ServerSetupType, Routes, Stored
  <1>7. s_phase = "syn" => s_peer = c_socket
    BY <1>5 DEF TypeInv, ServerType, Routes, Stored
  <1>8. Routed
    BY DEF Routes
  <1>9. Basics
    BY BasicsHold
  <1>10. \A p \in InFlight : p \in Packets /\ p.to \in Known /\ (p.to = Server => p.from = c_socket)
    BY <1>3, <1>8 DEF Routed
  <1>11. ~OnReusedPort /\ mode = "ACTIVE" /\ c_ready =>
           \A p \in InFlight : p.to = c_socket => p.from = Server
    BY <1>4, <1>8 DEF Routed
  <1> QED
    BY <1>1, <1>2, <1>6, <1>7, <1>9, <1>10, <1>11 DEF Givens

(* Each step of the client's worker keeps the handshake together.            *)
LEMMA ClientActive == Givens /\ ActiveInv /\ Client => ActiveInv'
  <1> SUFFICES ASSUME Givens, ActiveInv, Client PROVE ActiveInv'
    OBVIOUS
  <1> USE DEF ClientIn
  <1>f. /\ UNCHANGED <<channel, mode, direction, c_socket, s_phase, s_peer, s_tries, s_waited>>
        /\ UNCHANGED <<abort, s_ready, losses>>
        /\ Server' = Server /\ LostSyns' = LostSyns /\ OnReusedPort' = OnReusedPort
        /\ AnswerKept' = AnswerKept
    <2>1. ClientOnly /\ losses' = losses
      BY DEF Client, ClientOpens, ClientRetriesSyn, ClientAwaitTimeout, ClientResends,
             ClientRecvTimeout, ClientCancelled, ClientEnds, ClientReceivesSynAck,
             ClientReceivesSyn, ClientReceivesAck, ClientReceivesData, ClientReceivesFin,
             Sends, Takes, network
    <2> QED
      BY <2>1 DEF ClientOnly, setup_vars, server_setup, server_vars, end_vars, Server, LostSyns,
                  OnReusedPort, AnswerKept
  <1>p. (~OnReusedPort' => Silent') /\ (mode' = "ACTIVE" => c_phase' # "syn" /\ s_phase' # "discover")
    <2>1. (mode = "ACTIVE" => c_phase' # "syn") /\ (c_phase' # "idle" \/ ~c_ready')
      BY DEF ActiveInv, Client, ClientOpens, ClientRetriesSyn, ClientAwaitTimeout, ClientResends,
             ClientRecvTimeout, ClientCancelled, ClientEnds, ClientReceivesSynAck,
             ClientReceivesSyn, ClientReceivesAck, ClientReceivesData, ClientReceivesFin, ClientData
    <2> QED
      BY <1>f, <2>1 DEF Silent, ActiveInv
  <1> SUFFICES ASSUME AnswerKept PROVE Opening'
    BY <1>f, <1>p DEF ActiveInv
  <1>m. /\ ServerAsks /\ ClientAwaits /\ Answered
        /\ c_phase # "syn" /\ abort = "none" /\ mode = "ACTIVE" /\ direction = "UPLOAD"
        /\ ~OnReusedPort /\ LostSyns < ACTIVE_HANDSHAKE_RETRIES
    BY DEF ActiveInv, AnswerKept, Opening
  <1>n. /\ s_tries \in Nat /\ s_waited \in Nat /\ c_waited \in Nat
        /\ LostSyns \in Nat /\ (c_phase # "idle" => c_ready) /\ c_socket # Server
    BY DEF Givens, Basics
  <1>l. ASSUME c_phase' \notin {"open", "await"}, s_phase \notin {"open", "syn"}
        PROVE  Opening'
    BY <1>l, <1>f, <1>m DEF Opening, ServerAsks, ClientAwaits, Answered
  <1>b. c_phase \notin {"open", "await", "send"} => s_phase \notin {"open", "syn"}
    BY <1>m DEF ServerAsks
  <1>1. CASE ClientOpens
    <2>1. /\ c_phase = "open" /\ c_phase' = "await" /\ c_waited' = 0
          /\ fresh' = fresh /\ late' = late /\ InFlight' = InFlight
      BY <1>1, <1>m DEF ClientOpens, network, InFlight
    <2>2. ServerAsks'
      BY <1>f, <1>m, <2>1 DEF ServerAsks, Quiet
    <2>3. ClientAwaits'
      BY <1>f, <1>m, <1>n, <2>1 DEF ClientAwaits, ServerAsks, Quiet, SynArrives
    <2> QED
      BY <1>f, <1>m, <2>1, <2>2, <2>3 DEF Opening, Answered
  <1>2. CASE ClientRetriesSyn
    BY <1>2, <1>m DEF ClientRetriesSyn
  <1>3. CASE ClientAwaitTimeout
    <2>1. c_phase = "await" /\ c_waited = ACTIVE_UPLOAD_HANDSHAKE_TIMEOUT
      BY <1>3 DEF ClientAwaitTimeout
    <2>2. s_phase = "syn" /\ s_waited \in {0, 1}
      BY <1>m, <2>1, TimersAssumption DEF ClientAwaits, ServerAsks
    <2>3. c_waited + 1 <= s_tries + s_waited
          /\ (s_tries <= LostSyns \/ (s_waited = 0 /\ s_tries <= LostSyns + 1))
      BY <1>m, <2>1, <2>2 DEF ClientAwaits
    <2> QED
      BY <1>m, <1>n, <2>1, <2>2, <2>3, ActiveTimersAssumption, TimersAssumption
  <1>4. CASE ClientResends
    <2>1. c_phase \in {"send", "fin"} /\ c_waited = 1 /\ c_phase' \in {"send", "fin", "failed"}
      BY <1>4 DEF ClientResends
    <2>2. s_phase \notin {"open", "syn"}
      BY <1>m, <2>1 DEF ServerAsks, Answered
    <2> QED
      BY <1>l, <2>1, <2>2
  <1>5. CASE ClientRecvTimeout
    BY <1>5, <1>l, <1>b DEF ClientRecvTimeout
  <1>6. CASE ClientCancelled
    BY <1>6, <1>m DEF ClientCancelled
  <1>7. CASE ClientEnds
    BY <1>7, <1>l, <1>b DEF ClientEnds
  <1>8. ASSUME NEW p \in InFlight,
               \/ ClientReceivesSynAck(p) \/ ClientReceivesSyn(p) \/ ClientReceivesAck(p)
               \/ ClientReceivesData(p) \/ ClientReceivesFin(p)
        PROVE  Opening'
    <2>1. CASE ClientReceivesSynAck(p)
      BY <2>1, <1>m DEF ClientReceivesSynAck, ClientWantsSynAck
    <2>2. CASE ClientReceivesSyn(p)
      <3>1. c_phase = "await" /\ p.to = c_socket /\ p.kind = "SYN" /\ c_ready
        BY <2>2 DEF ClientReceivesSyn, ClientWantsSyn, ClientGets
      <3>2. p.from = Server
        BY <1>m, <3>1 DEF Givens
      <3>3. s_phase = "syn" /\ Quiet(Server)
        BY <1>m, <3>1 DEF ClientAwaits, ServerAsks, Quiet
      <3> DEFINE answer == Packet("SYN-ACK", c_socket, Server)
                 data == Packet("DATA", c_socket, Server)
      <3>4. /\ c_phase' = "send" /\ c_waited' = 0 /\ Takes(p, {answer, data})
        BY <2>2, <3>2, <1>m DEF ClientReceivesSyn, ClientData, ClientSends
      <3>5. /\ answer.to = Server /\ answer.kind = "SYN-ACK"
            /\ data.to = Server /\ data.kind = "DATA"
        BY DEF Packet
      <3>6. answer' = answer /\ data' = data
        BY <1>f
      <3> HIDE DEF answer, data
      <3>7. answer \in fresh' /\ InFlight' \subseteq InFlight \cup {answer, data}
        BY <3>4 DEF Takes, InFlight
      <3>8. ServerAsks'
        BY <1>f, <1>m, <1>n, <3>3, <3>4, <3>5, <3>7 DEF ServerAsks
      <3>9. Packet("SYN-ACK", c_socket, Server)' \in fresh'
        BY <3>6, <3>7 DEF answer
      <3>10. Answered'
        BY <1>f, <3>4, <3>9 DEF Answered
      <3> QED
        BY <1>f, <1>m, <3>4, <3>8, <3>10 DEF Opening, ClientAwaits, NoneGivesUp
    <2>3. CASE ClientReceivesAck(p)
      <3>1. /\ c_phase \in {"send", "fin"} /\ p.to = c_socket /\ p.kind \in {"ACK", "FIN-ACK"}
            /\ c_phase' \in {"fin", "ok"}
        BY <2>3 DEF ClientReceivesAck, ClientWantsAck, ClientGets
      <3>2. s_phase \notin {"open", "syn"}
        BY <1>m, <3>1 DEF ServerAsks
      <3> QED
        BY <1>l, <3>1, <3>2
    <2>4. CASE ClientReceivesData(p)
      BY <2>4, <1>l, <1>b DEF ClientReceivesData, ClientWantsData
    <2>5. CASE ClientReceivesFin(p)
      BY <2>5, <1>l, <1>b DEF ClientReceivesFin, ClientWantsFin
    <2> QED
      BY <1>8, <2>1, <2>2, <2>3, <2>4, <2>5
  <1> QED
    BY <1>1, <1>2, <1>3, <1>4, <1>5, <1>6, <1>7, <1>8 DEF Client, InFlight

(* An attempt fails while packets are still on their way; another follows.   *)
LEMMA AnotherSyn ==
  ASSUME Givens, Opening, AnswerKept, s_phase = "syn", AttemptLeft, AttemptFails,
         UNCHANGED <<channel, mode, c_socket, c_phase, c_waited, losses>>,
         InFlight' \subseteq InFlight \cup NextSyn, NextSyn \subseteq fresh',
         c_phase = "send" => Packet("SYN-ACK", c_socket, Server) \in fresh',
         c_phase \in {"open", "await"} => s_waited = 1
  PROVE  Opening'
  <1> USE DEF ServerIn
  <1>f. /\ Server' = Server /\ LostSyns' = LostSyns
        /\ s_phase' = "syn" /\ s_tries' = s_tries + 1 /\ s_waited' = 0
        /\ NextSyn = {Packet("SYN", Server, c_socket)}
    BY DEF Server, LostSyns, AttemptFails, NextSyn, Givens
  <1>m. ServerAsks /\ ClientAwaits /\ Answered
    BY DEF Opening
  <1>n. s_tries \in Nat /\ LostSyns \in Nat /\ c_waited \in Nat /\ c_socket # Server
    BY DEF Givens, Basics
  <1> DEFINE syn == Packet("SYN", Server, c_socket)
  <1>s. syn.to = c_socket /\ syn.kind = "SYN" /\ NextSyn = {syn}
    BY <1>f DEF Packet
  <1> HIDE DEF syn
  <1>1. ServerAsks'
    BY <1>f, <1>m, <1>n, <1>s DEF ServerAsks
  <1>2. ClientAwaits'
    <2> SUFFICES ASSUME c_phase \in {"open", "await"} PROVE ClientAwaits'
      BY DEF ClientAwaits
    <2>1. Quiet(Server) /\ (c_phase = "open" => c_waited = 0) /\ c_waited + 1 <= s_tries + 1
          /\ s_tries <= LostSyns
      BY <1>m, <1>n DEF ClientAwaits
    <2>2. Quiet(Server)'
      BY <1>f, <1>n, <1>s, <2>1 DEF Quiet
    <2>3. SynArrives'
      BY <1>s DEF SynArrives
    <2> QED
      BY <1>f, <1>n, <2>1, <2>2, <2>3 DEF ClientAwaits
  <1>3. Answered'
    BY <1>f, <1>m DEF Answered
  <1> QED
    BY <1>1, <1>2, <1>3, <1>f, <1>m DEF Opening, NoneGivesUp

(* Each step of the server's worker keeps the handshake together.            *)
LEMMA ServerActive == Givens /\ ActiveInv /\ ServerStep => ActiveInv'
  <1> SUFFICES ASSUME Givens, ActiveInv, ServerStep PROVE ActiveInv'
    OBVIOUS
  <1> USE DEF ServerIn
  <1>f. /\ UNCHANGED <<channel, mode, direction, c_socket, c_ready, c_phase, c_waited>>
        /\ UNCHANGED <<abort, losses>>
        /\ Server' = Server /\ LostSyns' = LostSyns /\ OnReusedPort' = OnReusedPort
        /\ AnswerKept' = AnswerKept
    <2>1. ServerOnly /\ losses' = losses
      BY DEF ServerStep, ServerOpens, DiscoverTimeout, ServerRetriesSyn, ServerResends,
             ServerRecvTimeout, ServerCancelled, ServerFinishes, ServerDiscovers,
             ServerReceivesSynAck, ServerAnswersSynAgain, ServerReceivesAck, ServerReceivesData,
             ServerReceivesFin, Sends, Takes, network
    <2> QED
      BY <2>1 DEF ServerOnly, setup_vars, client_vars, Server, LostSyns, OnReusedPort, AnswerKept
  <1>p. (~OnReusedPort' => Silent') /\ (mode' = "ACTIVE" => c_phase' # "syn" /\ s_phase' # "discover")
    <2>1. (mode = "ACTIVE" => c_phase # "syn" /\ s_phase # "discover") /\ (~OnReusedPort => Silent)
      BY DEF ActiveInv
    <2>2. mode = "ACTIVE" => s_phase' # "discover"
      BY <2>1 DEF ServerStep, ServerOpens, DiscoverTimeout, ServerRetriesSyn, ServerResends,
             AttemptFails, ServerRecvTimeout, ServerCancelled, ServerFinishes, ServerDiscovers,
             ServerReceivesSynAck, ServerAnswersSynAgain, ServerWantsSynAgain, ServerReceivesAck,
             ServerReceivesData, ServerReceivesFin, ServerData
    <2>3. s_phase # "idle"
      BY DEF ServerStep, ServerOpens, DiscoverTimeout, ServerRetriesSyn, ServerResends,
             ServerRecvTimeout, ServerCancelled, ServerFinishes, ServerDiscovers, ServerWantsSyn,
             ServerReceivesSynAck, ServerAnswersSynAgain, ServerWantsSynAgain, ServerReceivesAck,
             ServerWantsAck, ServerReceivesData, ServerWantsData, ServerReceivesFin,
             ServerWantsFin, Over
    <2> QED
      BY <1>f, <2>1, <2>2, <2>3 DEF Silent
  <1> SUFFICES ASSUME AnswerKept PROVE Opening'
    BY <1>f, <1>p DEF ActiveInv
  <1>m. /\ ServerAsks /\ ClientAwaits /\ Answered /\ Opening
        /\ s_phase # "discover" /\ abort = "none" /\ mode = "ACTIVE" /\ direction = "UPLOAD"
        /\ ~OnReusedPort /\ LostSyns < ACTIVE_HANDSHAKE_RETRIES
    BY DEF ActiveInv, AnswerKept, Opening
  <1>n. /\ s_tries \in Nat /\ s_waited \in Nat /\ c_waited \in Nat
        /\ LostSyns \in Nat /\ c_socket # Server
    BY DEF Givens, Basics
  <1>l. ASSUME s_phase' \notin {"open", "syn"}, c_phase \notin {"open", "await"}
        PROVE  Opening'
    BY <1>l, <1>f, <1>m DEF Opening, ServerAsks, ClientAwaits, Answered
  <1>b. s_phase \notin {"open", "syn"} => c_phase \notin {"open", "await"}
    BY <1>m DEF ClientAwaits
  <1>1. CASE ServerOpens
    <2>1. s_phase = "open" /\ c_phase \in {"open", "await"} /\ Quiet(c_socket)
          /\ s_ready /\ active_udp_address = c_socket /\ Quiet(Server) /\ c_waited = 0
      BY <1>1, <1>m DEF ServerOpens, ServerAsks, ClientAwaits, Givens
    <2> DEFINE syn == Packet("SYN", Server, c_socket)
    <2>2. /\ s_phase' = "syn" /\ s_tries' = 1 /\ s_waited' = 0 /\ Sends({syn})
      BY <1>1, <1>m, <2>1 DEF ServerOpens
    <2>3. syn.to = c_socket /\ syn.kind = "SYN"
      BY DEF Packet
    <2> HIDE DEF syn
    <2>4. syn \in fresh' /\ InFlight' = InFlight \cup {syn}
      BY <2>2 DEF Sends, InFlight
    <2>5. ServerAsks'
      BY <1>f, <2>1, <2>2, <2>3, <2>4 DEF ServerAsks, Quiet
    <2>6. SynArrives' /\ Quiet(Server)'
      BY <1>f, <1>n, <2>1, <2>3, <2>4 DEF SynArrives, Quiet
    <2>7. ClientAwaits'
      BY <1>f, <1>n, <2>1, <2>2, <2>6 DEF ClientAwaits
    <2> QED
      BY <1>f, <1>m, <2>1, <2>2, <2>5, <2>7 DEF Opening, Answered
  <1>2. CASE DiscoverTimeout
    BY <1>2, <1>m DEF DiscoverTimeout
  <1>3. CASE ServerRetriesSyn
    <2>1. s_phase = "syn" /\ s_waited = 1 /\ AttemptFails /\ Sends(NextSyn)
          /\ c_phase \in {"open", "await", "send"}
      BY <1>3, <1>m DEF ServerRetriesSyn, ServerAsks
    <2>2. InFlight' = InFlight \cup NextSyn /\ NextSyn \subseteq fresh' /\ fresh \subseteq fresh'
      BY <2>1 DEF Sends, InFlight
    <2>3. CASE AttemptLeft
      BY <1>f, <1>m, <2>1, <2>2, <2>3, AnotherSyn DEF Answered
    <2>4. CASE ~AttemptLeft
      <3>1. s_phase' = "unopened"
        BY <2>1, <2>4 DEF AttemptFails
      <3>2. c_phase \notin {"open", "await"}
        BY <1>m, <1>n, <2>1, <2>4, TimersAssumption DEF ClientAwaits, AttemptLeft
      <3> QED
        BY <1>l, <3>1, <3>2
    <2> QED
      BY <2>3, <2>4
  <1>4. CASE ServerResends
    BY <1>4, <1>l, <1>b DEF ServerResends
  <1>5. CASE ServerRecvTimeout
    BY <1>5, <1>l, <1>b DEF ServerRecvTimeout
  <1>6. CASE ServerCancelled
    BY <1>6, <1>m DEF ServerCancelled
  <1>7. CASE ServerFinishes
    BY <1>7, <1>l, <1>b DEF ServerFinishes, Over
  <1>8. ASSUME NEW p \in InFlight,
               \/ ServerDiscovers(p) \/ ServerReceivesSynAck(p) \/ ServerAnswersSynAgain(p)
               \/ ServerReceivesAck(p) \/ ServerReceivesData(p) \/ ServerReceivesFin(p)
        PROVE  Opening'
    <2>1. CASE ServerDiscovers(p)
      BY <2>1, <1>m DEF ServerDiscovers, ServerWantsSyn
    <2>2. CASE ServerReceivesSynAck(p)
      <3>1. s_phase = "syn" /\ p.to = Server /\ s_peer = c_socket /\ p.from = c_socket
        BY <2>2 DEF ServerReceivesSynAck, Givens
      <3>2. c_phase = "send"
        BY <1>m, <3>1 DEF ServerAsks, ClientAwaits, Quiet
      <3>3. CASE p.kind = "SYN-ACK"
        <4>1. s_phase' \in {"recv", "send"}
          BY <2>2, <3>1, <3>3 DEF ServerReceivesSynAck, ServerData
        <4> QED
          BY <3>2, <4>1, <1>l
      <3>4. CASE p.kind # "SYN-ACK"
        <4>1. AttemptFails /\ (Takes(p, NextSyn) \/ Sends(NextSyn))
          BY <2>2, <3>1, <3>4 DEF ServerReceivesSynAck
        <4> DEFINE answer == Packet("SYN-ACK", c_socket, Server)
        <4>2. answer \in fresh /\ p # answer
          BY <1>m, <3>1, <3>2, <3>4 DEF Answered, Packet
        <4>3. answer \in fresh' /\ InFlight' \subseteq InFlight \cup NextSyn
              /\ NextSyn \subseteq fresh'
          <5> HIDE DEF answer
          <5> QED
            BY <4>1, <4>2 DEF Takes, Sends, InFlight
        <4>4. CASE AttemptLeft
          BY <1>f, <1>m, <3>1, <3>2, <4>1, <4>3, <4>4, AnotherSyn
        <4>5. CASE ~AttemptLeft
          <5>1. s_phase' = "unopened"
            BY <4>1, <4>5 DEF AttemptFails
          <5> QED
            BY <1>l, <3>2, <5>1
        <4> QED
          BY <4>4, <4>5
      <3> QED
        BY <3>3, <3>4
    <2>3. CASE ServerAnswersSynAgain(p)
      BY <2>3, <1>m DEF ServerAnswersSynAgain, ServerWantsSynAgain
    <2>4. CASE ServerReceivesAck(p)
      BY <2>4, <1>l, <1>b DEF ServerReceivesAck, ServerWantsAck
    <2>5. CASE ServerReceivesData(p)
      BY <2>5, <1>l, <1>b DEF ServerReceivesData, ServerWantsData
    <2>6. CASE ServerReceivesFin(p)
      BY <2>6, <1>l, <1>b DEF ServerReceivesFin, ServerWantsFin
    <2> QED
      BY <1>8, <2>1, <2>2, <2>3, <2>4, <2>5, <2>6
  <1> QED
    BY <1>1, <1>2, <1>3, <1>4, <1>5, <1>6, <1>7, <1>8 DEF ServerStep, InFlight

(* PORT begins a channel to which nothing is under way, on a port of its     *)
(* own; its transfer begins at both ends; ABOR ends what is promised.        *)
LEMMA UserActive == Givens /\ ActiveInv /\ User => ActiveInv'
  <1> SUFFICES ASSUME Givens, ActiveInv, User PROVE ActiveInv'
    OBVIOUS
  <1>1. ASSUME NEW m \in Modes, NEW own \in BOOLEAN, NEW address,
               address = IF own /\ m = "ACTIVE" THEN UserPort ELSE Address("client", channel + 1),
               Configure(m, address)
        PROVE  ActiveInv'
    <2>1. /\ c_phase' = "idle" /\ s_phase' = "idle" /\ c_socket' = address /\ mode' = m
          /\ InFlight' = {p \in InFlight : p.to = address}
      BY <1>1 DEF Configure, client_vars, server_vars, ForOpenSockets, InFlight
    <2>2. ~OnReusedPort' => address = Address("client", channel + 1)
      BY <1>1, <2>1 DEF OnReusedPort
    <2>3. Address("client", channel + 1) \notin Known
      BY DEF Givens, Basics, Routes, OwnSocket, Known, Address, Nobody, Anyone
    <2>4. ~OnReusedPort' => InFlight' = {}
      BY <2>1, <2>2, <2>3 DEF Givens
    <2>5. ~OnReusedPort' => Silent'
      BY <2>1, <2>4 DEF Silent, Quiet
    <2> QED
      BY <2>1, <2>5 DEF ActiveInv, Opening, ServerAsks, ClientAwaits, Answered
  <1>2. ASSUME NEW d \in Directions, Begin(d) PROVE ActiveInv'
    <2>1. /\ UNCHANGED <<channel, mode, c_socket, c_ready, server_setup, network>>
          /\ c_phase = "idle" /\ c_ready /\ s_ready
          /\ c_phase' = "open" /\ s_phase' = "open" /\ c_waited' = 0
      BY <1>2 DEF Begin, ClientIn, ServerIn
    <2>2. InFlight' = InFlight /\ Server' = Server /\ OnReusedPort' = OnReusedPort
      BY <2>1 DEF network, InFlight, Server, OnReusedPort
    <2>3. ~OnReusedPort' => Silent'
      BY <2>1, <2>2 DEF ActiveInv, Silent
    <2> SUFFICES ASSUME AnswerKept' PROVE Opening'
      BY <2>1, <2>3 DEF ActiveInv
    <2>4. Quiet(Server) /\ Quiet(c_socket)
      BY <2>1, <2>2 DEF AnswerKept, ActiveInv, Silent
    <2>5. Quiet(Server)' /\ Quiet(c_socket)'
      BY <2>1, <2>2, <2>4 DEF Quiet
    <2>6. ServerAsks'
      BY <2>1, <2>5 DEF ServerAsks, Quiet, server_setup
    <2> QED
      BY <2>1, <2>5, <2>6 DEF Opening, ClientAwaits, Answered
  <1>3. CASE SendAbort \/ HandleAbort
    <2>1. /\ UNCHANGED <<setup_vars, c_ready, client_vars, server_vars, network>>
          /\ abort' # "none"
      BY <1>3 DEF SendAbort, HandleAbort
    <2>2. /\ UNCHANGED <<mode, c_socket, c_ready, c_phase, s_phase>>
          /\ InFlight' = InFlight /\ Server' = Server /\ OnReusedPort' = OnReusedPort
      BY <2>1 DEF setup_vars, client_vars, server_vars, network, InFlight, Server, OnReusedPort
    <2>3. ~OnReusedPort' => Silent'
      BY <2>2 DEF ActiveInv, Silent, Quiet
    <2> QED
      BY <2>1, <2>2, <2>3 DEF ActiveInv, AnswerKept
  <1> QED
    BY <1>1, <1>2, <1>3 DEF User

(* A SYN that is lost pays for the next attempt; a second passes for both    *)
(* ends.                                                                     *)
LEMMA OtherActive == Givens /\ ActiveInv /\ (Network \/ Tick \/ UNCHANGED vars) => ActiveInv'
  <1> SUFFICES ASSUME Givens, ActiveInv, Network \/ Tick \/ UNCHANGED vars PROVE ActiveInv'
    OBVIOUS
  <1>n. /\ s_tries \in Nat /\ s_waited \in Nat /\ c_waited \in Nat
        /\ LostSyns \in Nat /\ c_socket # Server
        /\ losses \in [Loss -> Nat] /\ (c_phase # "idle" => c_ready)
    BY DEF Givens, Basics, ActiveInv
  <1>f. /\ UNCHANGED <<channel, mode, direction, c_socket, c_ready, c_phase, s_phase, s_tries>>
        /\ UNCHANGED <<abort, s_ready>>
        /\ Server' = Server /\ OnReusedPort' = OnReusedPort /\ InFlight' \subseteq InFlight
    BY DEF Network, Lose, Duplicate, Discard, NetworkOnly, Tick, vars, setup_vars, server_setup,
           client_vars, server_vars, end_vars, network, InFlight, Server, OnReusedPort
  <1>q. \A address : Quiet(address) => Quiet(address)'
    BY <1>f DEF Quiet
  <1>p. (~OnReusedPort' => Silent') /\ (mode' = "ACTIVE" => c_phase' # "syn" /\ s_phase' # "discover")
    BY <1>f, <1>q DEF ActiveInv, Silent
  <1>o. AnswerKept => ServerAsks /\ ClientAwaits /\ Answered
    BY DEF ActiveInv, Opening
  <1>a. Packet("SYN-ACK", c_socket, Server)' = Packet("SYN-ACK", c_socket, Server)
    BY <1>f
  <1>1. ASSUME AnswerKept, UNCHANGED <<c_waited, s_waited>>,
               \/ LostSyns' = LostSyns /\ (SynArrives => SynArrives')
               \/ LostSyns' = LostSyns + 1,
               fresh' \subseteq fresh,
               c_phase = "send" /\ s_phase = "syn" => Packet("SYN-ACK", c_socket, Server) \in fresh'
        PROVE  Opening'
    <2>1. ServerAsks'
      BY <1>1, <1>f, <1>o, <1>q DEF ServerAsks
    <2>2. ClientAwaits'
      <3> SUFFICES ASSUME c_phase \in {"open", "await"} PROVE ClientAwaits'
        BY <1>f DEF ClientAwaits
      <3>1. /\ s_phase \in {"open", "syn"} /\ Quiet(Server)'
            /\ c_phase = "open" \/ s_phase = "open" => c_waited = 0
        BY <1>1, <1>f, <1>o, <1>q DEF ClientAwaits
      <3>2. s_phase = "syn" =>
              /\ c_waited + 1 <= s_tries + s_waited
              /\ s_tries <= LostSyns \/ (s_waited = 0 /\ SynArrives /\ s_tries <= LostSyns + 1)
        BY <1>1, <1>o DEF ClientAwaits
      <3>3. s_phase = "syn" =>
              s_tries <= LostSyns' \/ (s_waited = 0 /\ SynArrives' /\ s_tries <= LostSyns' + 1)
        <4>1. CASE LostSyns' = LostSyns /\ (SynArrives => SynArrives')
          BY <3>2, <4>1
        <4>2. CASE LostSyns' = LostSyns + 1
          BY <3>2, <4>2, <1>n
        <4> QED
          BY <1>1, <4>1, <4>2
      <3> QED
        BY <1>1, <1>f, <3>1, <3>2, <3>3 DEF ClientAwaits
    <2>3. Answered'
      BY <1>1, <1>a, <1>f, <1>o DEF Answered
    <2> QED
      BY <2>1, <2>2, <2>3 DEF Opening
  <1>2. ASSUME NEW p \in fresh, Lose(p) PROVE ActiveInv'
    <2>1. /\ fresh' = fresh \ {p} /\ UNCHANGED <<c_waited, s_waited>>
          /\ losses' = [losses EXCEPT ![LossKind(p)] = losses[LossKind(p)] + 1]
      BY <1>2 DEF Lose, NetworkOnly, client_vars, server_vars
    <2>2. LossKind(p) \in Loss /\ losses["SYN-ACK"] \in Nat /\ losses["SYN"] \in Nat
      BY <1>n DEF LossKind, Loss
    <2>3. /\ p.kind = "SYN" => LostSyns' = LostSyns + 1
          /\ p.kind # "SYN" => LostSyns' = LostSyns
          /\ p.kind = "SYN-ACK" => losses'["SYN-ACK"] # 0
          /\ losses'["SYN-ACK"] = 0 => losses["SYN-ACK"] = 0
      BY <1>n, <2>1, <2>2 DEF LossKind, Loss, LostSyns
    <2> SUFFICES ASSUME AnswerKept' PROVE Opening'
      BY <1>p DEF ActiveInv
    <2>4. AnswerKept
      <3>1. losses'["SYN-ACK"] = 0 /\ LostSyns' < ACTIVE_HANDSHAKE_RETRIES
        BY DEF AnswerKept
      <3>2. LostSyns < ACTIVE_HANDSHAKE_RETRIES
        BY <3>1, <2>3, <1>n, TimersAssumption
      <3> QED
        BY <1>f, <2>3, <3>1, <3>2 DEF AnswerKept
    <2>5. p.kind # "SYN-ACK"
      BY <2>3 DEF AnswerKept
    <2>6. Packet("SYN-ACK", c_socket, Server).kind = "SYN-ACK"
      BY DEF Packet
    <2>7. c_phase = "send" /\ s_phase = "syn" => Packet("SYN-ACK", c_socket, Server) \in fresh'
      BY <1>o, <2>1, <2>4, <2>5, <2>6 DEF Answered
    <2>8. p.kind # "SYN" => (SynArrives => SynArrives')
      BY <1>f, <2>1 DEF SynArrives
    <2> QED
      BY <1>1, <2>1, <2>3, <2>4, <2>7, <2>8
  <1>3. ASSUME UNCHANGED <<losses, c_waited, s_waited>>, fresh' \subseteq fresh,
               AnswerKept =>
                 /\ c_phase \in {"open", "await"} /\ s_phase = "syn" =>
                      (SynArrives => SynArrives')
                 /\ c_phase = "send" /\ s_phase = "syn" =>
                      Packet("SYN-ACK", c_socket, Server) \in fresh'
        PROVE  ActiveInv'
    <2>1. LostSyns' = LostSyns /\ AnswerKept' = AnswerKept
      BY <1>3, <1>f DEF LostSyns, AnswerKept
    <2>2. ASSUME AnswerKept PROVE Opening'
      <3>1. CASE c_phase \in {"open", "await"} /\ s_phase = "syn"
        BY <1>1, <1>3, <2>1, <2>2, <3>1
      <3>2. CASE ~(c_phase \in {"open", "await"} /\ s_phase = "syn")
        <4>1. ServerAsks'
          BY <2>2, <1>3, <1>f, <1>o, <1>q DEF ServerAsks
        <4>2. ClientAwaits'
          BY <2>2, <3>2, <1>3, <1>f, <1>o, <1>q DEF ClientAwaits
        <4>3. Answered'
          BY <2>1, <2>2, <1>3, <1>a, <1>f, <1>o DEF Answered
        <4> QED
          BY <4>1, <4>2, <4>3 DEF Opening
      <3> QED
        BY <3>1, <3>2
    <2> QED
      BY <1>3, <1>n, <1>p, <2>1, <2>2 DEF ActiveInv
  <1>4. ASSUME NEW p \in fresh, Duplicate(p) PROVE ActiveInv'
    <2>1. /\ fresh' = fresh /\ losses' = losses /\ UNCHANGED <<c_waited, s_waited>>
      BY <1>4 DEF Duplicate, NetworkOnly, client_vars, server_vars
    <2>2. SynArrives' = SynArrives
      BY <1>f, <2>1 DEF SynArrives
    <2>3. AnswerKept /\ c_phase = "send" /\ s_phase = "syn" =>
            Packet("SYN-ACK", c_socket, Server) \in fresh'
      BY <1>o, <2>1 DEF Answered
    <2> QED
      BY <1>3, <2>1, <2>2, <2>3
  <1>5. ASSUME NEW p \in fresh, Discard(p) PROVE ActiveInv'
    <2>1. /\ UNCHANGED <<losses, c_waited, s_waited>> /\ fresh' = fresh \ {p}
          /\ c_phase # "open" /\ s_phase # "open" /\ ~Wanted(p)
      BY <1>5 DEF Discard, NetworkOnly, client_vars, server_vars
    <2>2. c_phase = "await" => ~(p.to = c_socket /\ p.kind = "SYN")
      BY <1>n, <2>1 DEF Wanted, ClientWantsSyn, ClientGets
    <2>3. c_phase = "await" => (SynArrives => SynArrives')
      BY <1>f, <2>1, <2>2 DEF SynArrives
    <2>4. s_phase = "syn" => p.to # Server
      BY <2>1 DEF Wanted
    <2>5. Packet("SYN-ACK", c_socket, Server).to = Server
      BY DEF Packet
    <2>6. AnswerKept /\ c_phase = "send" /\ s_phase = "syn" =>
            Packet("SYN-ACK", c_socket, Server) \in fresh'
      BY <1>o, <2>1, <2>4, <2>5 DEF Answered
    <2> QED
      BY <1>3, <2>1, <2>3, <2>6
  <1>6. CASE Tick
    <2>1. /\ fresh = {} /\ c_phase # "open" /\ s_phase # "open"
          /\ s_phase \in Timed => s_waited < Patience[s_phase]
          /\ c_waited' = IF c_phase \in Timed THEN c_waited + 1 ELSE c_waited
          /\ s_waited' = IF s_phase \in Timed THEN s_waited + 1 ELSE s_waited
          /\ losses' = losses
      BY <1>6 DEF Tick, network
    <2>2. AnswerKept' = AnswerKept /\ LostSyns' = LostSyns
      BY <1>f, <2>1 DEF AnswerKept, LostSyns
    <2> SUFFICES ASSUME AnswerKept PROVE Opening'
      BY <1>n, <1>p, <2>1, <2>2 DEF ActiveInv
    <2>3. ServerAsks /\ ClientAwaits /\ Answered /\ ~SynArrives
      BY <1>o, <2>1 DEF SynArrives
    <2>4. ~(c_phase = "send" /\ s_phase = "syn")
      BY <2>1, <2>3 DEF Answered
    <2>5. s_phase = "syn" => c_phase = "await" /\ s_waited = 0 /\ s_waited' = 1
      BY <1>n, <2>1, <2>3, <2>4, Patiences DEF ServerAsks
    <2>6. c_phase = "await" =>
            /\ s_phase = "syn" /\ Quiet(Server) /\ c_waited + 1 <= s_tries + s_waited
            /\ s_tries <= LostSyns /\ c_waited' = c_waited + 1
      BY <2>1, <2>3, Patiences DEF ClientAwaits
    <2>7. ServerAsks'
      BY <1>f, <2>1, <2>3, <2>5 DEF ServerAsks
    <2>8. ClientAwaits'
      BY <1>f, <1>n, <1>q, <2>1, <2>2, <2>5, <2>6 DEF ClientAwaits
    <2> QED
      BY <1>f, <2>3, <2>4, <2>7, <2>8 DEF Opening, Answered
  <1>7. CASE UNCHANGED vars
    <2>1. UNCHANGED <<fresh, losses, c_waited, s_waited>>
      BY <1>7 DEF vars, client_vars, server_vars, network
    <2>2. SynArrives' = SynArrives
      BY <1>f, <2>1 DEF SynArrives
    <2>3. AnswerKept /\ c_phase = "send" /\ s_phase = "syn" =>
            Packet("SYN-ACK", c_socket, Server) \in fresh'
      BY <1>o, <2>1 DEF Answered
    <2> QED
      BY <1>3, <2>1, <2>2, <2>3
  <1> QED
    BY <1>2, <1>4, <1>5, <1>6, <1>7 DEF Network

(* An end that gives up has lost every SYN, or the answer is overtaken.      *)
LEMMA GivingUp ==
  ASSUME Givens, ActiveInv, AnswerKept, [Next]_vars, GivesUpOpening
  PROVE  SynAckOvertaken
  <1>m. /\ ServerAsks /\ ClientAwaits /\ Answered /\ c_phase # "syn" /\ s_phase # "discover"
        /\ LostSyns < ACTIVE_HANDSHAKE_RETRIES
    BY DEF ActiveInv, AnswerKept, Opening
  <1>n. s_tries \in Nat /\ s_waited \in Nat /\ c_waited \in Nat /\ LostSyns \in Nat
    BY DEF Givens, Basics
  <1>1. CASE c_phase # "unopened" /\ c_phase' = "unopened"
    <2>1. ClientAwaitTimeout
      BY <1>1, <1>m DEF Next, User, Configure, Begin, SendAbort, HandleAbort, Client,
         ClientOpens, ClientRetriesSyn, ClientResends, ClientRecvTimeout, ClientCancelled,
         ClientEnds, ClientReceivesSynAck, ClientReceivesSyn, ClientReceivesAck,
         ClientReceivesData, ClientReceivesFin, ClientData, ClientIn, ServerStep, ServerOpens,
         DiscoverTimeout, ServerRetriesSyn, ServerResends, ServerRecvTimeout, ServerCancelled,
         ServerFinishes, ServerDiscovers, ServerReceivesSynAck, ServerAnswersSynAgain,
         ServerReceivesAck, ServerReceivesData, ServerReceivesFin, ServerOnly, Network, Lose,
         Duplicate, Discard, NetworkOnly, Tick, client_vars, vars
    <2>2. c_phase = "await" /\ c_waited = ACTIVE_UPLOAD_HANDSHAKE_TIMEOUT
      BY <2>1 DEF ClientAwaitTimeout
    <2>3. s_phase = "syn" /\ s_waited \in {0, 1}
      BY <1>m, <2>2, TimersAssumption DEF ClientAwaits, ServerAsks
    <2>4. /\ c_waited + 1 <= s_tries + s_waited
          /\ s_tries <= LostSyns \/ (s_waited = 0 /\ s_tries <= LostSyns + 1)
      BY <1>m, <2>2, <2>3 DEF ClientAwaits
    <2> QED
      BY <1>m, <1>n, <2>2, <2>3, <2>4, ActiveTimersAssumption, TimersAssumption
  <1>2. CASE s_phase # "unopened" /\ s_phase' = "unopened"
    <2>1. ServerRetriesSyn \/ \E p \in InFlight : ServerReceivesSynAck(p)
      BY <1>2, <1>m DEF Next, User, Configure, Begin, SendAbort, HandleAbort, Client,
         ClientOpens, ClientRetriesSyn, ClientAwaitTimeout, ClientResends, ClientRecvTimeout,
         ClientCancelled, ClientEnds, ClientReceivesSynAck, ClientReceivesSyn,
         ClientReceivesAck, ClientReceivesData, ClientReceivesFin, ClientOnly, ServerStep,
         ServerOpens, DiscoverTimeout, ServerResends, ServerRecvTimeout, ServerCancelled,
         ServerFinishes, ServerDiscovers, ServerAnswersSynAgain, ServerWantsSynAgain,
         ServerReceivesAck, ServerReceivesData, ServerReceivesFin, ServerData, ServerIn,
         Network, Lose, Duplicate, Discard, NetworkOnly, Tick, server_vars, vars, InFlight
    <2>2. s_phase = "syn" /\ ~AttemptLeft
      BY <1>2, <2>1 DEF ServerRetriesSyn, ServerReceivesSynAck, AttemptFails, ServerData,
         ServerIn
    <2>3. c_phase \notin {"open", "await"}
      <3>1. CASE ServerRetriesSyn
        <4>1. s_waited = 1
          BY <3>1 DEF ServerRetriesSyn
        <4> QED
          BY <1>m, <1>n, <2>2, <4>1, TimersAssumption DEF ClientAwaits, AttemptLeft
      <3>2. CASE \E p \in InFlight : ServerReceivesSynAck(p)
        BY <1>m, <3>2 DEF ClientAwaits, Quiet, ServerReceivesSynAck
      <3> QED
        BY <2>1, <3>1, <3>2
    <2>4. Packet("SYN-ACK", c_socket, Server) \in fresh
      BY <1>m, <2>2, <2>3 DEF ServerAsks, Answered
    <2> QED
      BY <2>4 DEF SynAckOvertaken, Packet
  <1> QED
    BY <1>1, <1>2 DEF GivesUpOpening

(* For any number of channels, retries and copies: an active upload on a     *)
(* port of its own is given up only after every SYN, or the SYN-ACK, was     *)
(* lost, or while data overtakes the SYN-ACK.                                *)
THEOREM ActiveHandshakeSurvives == Spec => ActiveUploadOpens
  <1> DEFINE Excused == \/ losses["SYN"] >= ACTIVE_HANDSHAKE_RETRIES
                        \/ losses["SYN-ACK"] > 0
                        \/ SynAckOvertaken
  <1>1. Init => ActiveInv
    BY DEF Init, ActiveInv, Silent, Opening, ServerAsks, ClientAwaits, Answered
  <1>2. TypeInv /\ Routes /\ ActiveInv /\ [Next]_vars => ActiveInv'
    BY GivensHold, ClientActive, ServerActive, UserActive, OtherActive DEF Next
  <1>3. TypeInv /\ Routes /\ ActiveInv /\ [Next]_vars => [GivesUpOpening => Excused]_vars
    <2> SUFFICES ASSUME TypeInv, Routes, ActiveInv, [Next]_vars, GivesUpOpening, ~Excused
                 PROVE  FALSE
      OBVIOUS
    <2>1. Givens
      BY GivensHold
    <2>2. losses["SYN"] \in Nat /\ losses["SYN-ACK"] \in Nat
      BY <2>1 DEF Givens, Loss
    <2>3. AnswerKept
      BY <2>2, TimersAssumption DEF AnswerKept, GivesUpOpening, LostSyns
    <2> QED
      BY <2>1, <2>3, GivingUp
  <1> QED
    BY <1>1, <1>2, <1>3, TypesAlways, RoutesHold, PTL DEF Spec, ActiveUploadOpens

=============================================================================
