----------------------------- MODULE DataChannel -----------------------------
(***************************************************************************)
(* How client and server find each other on UDP, transfer after transfer:  *)
(* PASV and PORT, the two SYN handshakes (src/server/control/              *)
(* data_channel.py and the client's transfer_handler.py), and the data     *)
(* phase in which a passive server goes on answering SYNs.                 *)
(*                                                                         *)
(* Time is counted in seconds, the unit of every timer of the handshakes.  *)
(* A packet arrives or is lost within a second; a copy of it may arrive at *)
(* any later time.  A socket of the operating system's choice has a fresh  *)
(* address; the port that a user gives to PORT may be used again.          *)
(*                                                                         *)
(* The data phase is RDT: "DATA" stands for the packets of a window and    *)
(* their retransmissions within a second, of which the receiver may read   *)
(* any number, "ACK" for the answers to them, "FIN" and "FIN-ACK" for the  *)
(* end.  They are sent again every second.                                 *)
(***************************************************************************)
EXTENDS Naturals, FiniteSets

CONSTANTS
  PASSIVE_HANDSHAKE_RETRIES,
  ACTIVE_HANDSHAKE_RETRIES,
  PASSIVE_DISCOVERY_TIMEOUT,
  ACTIVE_UPLOAD_HANDSHAKE_TIMEOUT,
  DataTimeout,    \* seconds without progress after which an end of RDT gives up
  MaxChannels,    \* bound: PASV and PORT commands of the session
  MaxLosses,      \* bound: packets lost
  MaxCopies       \* bound: packets of which a copy arrives late

ASSUME TimersAssumption ==
  /\ PASSIVE_HANDSHAKE_RETRIES \in Nat \ {0} /\ ACTIVE_HANDSHAKE_RETRIES \in Nat \ {0}
  /\ PASSIVE_DISCOVERY_TIMEOUT \in Nat \ {0}
  /\ ACTIVE_UPLOAD_HANDSHAKE_TIMEOUT \in Nat \ {0}
  /\ DataTimeout \in Nat \ {0}
  /\ MaxChannels \in Nat /\ MaxLosses \in Nat /\ MaxCopies \in Nat

(* The limits of data_channel.py and transfer_handler.py fit each other:     *)
(* 5 SYNs and 5 seconds of discovery against 10 * 0.3 seconds in the data    *)
(* phase, and 5 attempts against the 6 seconds of a client that waits.       *)
ASSUME PassiveTimersAssumption ==
  DataTimeout <= PASSIVE_HANDSHAKE_RETRIES /\ DataTimeout <= PASSIVE_DISCOVERY_TIMEOUT
ASSUME ActiveTimersAssumption ==
  ACTIVE_HANDSHAKE_RETRIES <= ACTIVE_UPLOAD_HANDSHAKE_TIMEOUT

VARIABLES
  channel,                \* number of PASV and PORT commands so far
  mode, direction,        \* of the latest channel and of its transfer
  c_socket,               \* address of the client's data socket in that channel
  c_ready, s_ready,       \* data_connection_mode is set, at the client, at the server
  active_udp_address,
  passive_client_address,
  s_open,                 \* the server's data socket has not been closed by ABOR
  c_phase, s_phase,       \* where the two transfer workers are
  c_peer, s_peer,         \* the peer each has settled on
  c_tries, s_tries,       \* attempts of the current phase
  c_waited, s_waited,     \* seconds waited in it
  abort,                  \* ABOR: "none", "sent", "handled" or "late" (no transfer)
  reply,                  \* final reply of the transfer
  accepted,               \* channel whose data the receiver has accepted, 0: none
  fresh, late,            \* packets of this second, and copies that come later
  losses, copies          \* packets lost, SYN, SYN-ACK and other, and copies made

setup_vars == <<channel, mode, direction, c_socket>>
server_setup == <<s_ready, active_udp_address, passive_client_address, s_open>>
client_vars == <<c_phase, c_peer, c_tries, c_waited>>
server_vars == <<s_phase, s_peer, s_tries, s_waited>>
end_vars == <<abort, reply>>
network == <<fresh, late, losses, copies>>
vars == <<setup_vars, c_ready, server_setup, client_vars, server_vars, end_vars,
          accepted, network>>

-----------------------------------------------------------------------------
Modes == {"PASSIVE", "ACTIVE"}
Directions == {"UPLOAD", "DOWNLOAD"}
Kinds == {"SYN", "SYN-ACK", "DATA", "ACK", "FIN", "FIN-ACK"}

Address(end, id) == [end |-> end, id |-> id]
Nobody == Address("nobody", 0)
Anyone == Address("anyone", 0)
UserPort == Address("client", 0)           \* PORT with a port of the user's choice
Server == Address("server", channel)       \* the server's data socket in this channel
Addresses == [end : {"client", "server"}, id : 0..MaxChannels]

Packet(kind, from, to) == [kind |-> kind, from |-> from, to |-> to]
Packets == [kind : Kinds, from : Addresses, to : Addresses]

Init ==
  /\ channel = 0 /\ mode = "PASSIVE" /\ direction = "UPLOAD" /\ c_socket = Nobody
  /\ c_ready = FALSE /\ s_ready = FALSE
  /\ active_udp_address = Nobody /\ passive_client_address = Nobody /\ s_open = FALSE
  /\ c_phase = "idle" /\ c_peer = Nobody /\ c_tries = 0 /\ c_waited = 0
  /\ s_phase = "idle" /\ s_peer = Nobody /\ s_tries = 0 /\ s_waited = 0
  /\ abort = "none" /\ reply = "none" /\ accepted = 0
  /\ fresh = {} /\ late = {} /\ losses = [k \in {"SYN", "SYN-ACK", "other"} |-> 0] /\ copies = 0

Sends(out) == fresh' = fresh \cup out /\ UNCHANGED <<late, losses, copies>>

(* recvfrom takes packet p, and the reader answers with out. *)
Takes(p, out) ==
  /\ \/ p \in fresh /\ fresh' = (fresh \ {p}) \cup out /\ UNCHANGED late
     \/ p \in late /\ fresh' = fresh \cup out /\ late' = late \ {p}
  /\ UNCHANGED <<losses, copies>>

ClientGets(kind, p) == c_ready /\ p.to = c_socket /\ p.kind = kind
ServerGets(kind, p) == p.to = Server /\ p.kind = kind

ClientIn(phase, peer, tries) ==
  c_phase' = phase /\ c_peer' = peer /\ c_tries' = tries /\ c_waited' = 0
ServerIn(phase, peer, tries) ==
  s_phase' = phase /\ s_peer' = peer /\ s_tries' = tries /\ s_waited' = 0

-----------------------------------------------------------------------------
(* The control connection: PASV, PORT, the transfer command, ABOR *)

(* The sockets of the earlier channel are closed, and what is under way to   *)
(* them is lost, unless the client's new socket has the old port.            *)
ForOpenSockets(address) ==
  /\ fresh' = {p \in fresh : p.to = address}
  /\ late' = {p \in late : p.to = address}
  /\ UNCHANGED <<losses, copies>>

(* Mutant of Configure: the server keeps its passive socket and the peer it  *)
(* has found there.                                                          *)
ConfigureKeepsPeer(m, address) ==
  /\ channel < MaxChannels
  /\ c_phase = "idle" /\ s_phase = "idle"
  /\ channel' = channel + 1 /\ mode' = m /\ c_socket' = address
  /\ c_ready' = TRUE /\ s_ready' = TRUE
  /\ active_udp_address' = IF m = "ACTIVE" THEN address ELSE Nobody
  /\ s_open' = (m = "PASSIVE")
  /\ reply' = "none" /\ accepted' = 0
  /\ ForOpenSockets(address)
  /\ UNCHANGED <<direction, passive_client_address, client_vars, server_vars, abort>>

(* reset_data_connection on both sides, then the new sockets.  While the     *)
(* server's worker has not ended the command is refused and changes nothing. *)
Configure(m, address) ==
  /\ channel < MaxChannels
  /\ c_phase = "idle" /\ s_phase = "idle"
  /\ channel' = channel + 1 /\ mode' = m /\ c_socket' = address
  /\ c_ready' = TRUE /\ s_ready' = TRUE
  /\ active_udp_address' = IF m = "ACTIVE" THEN address ELSE Nobody
  /\ passive_client_address' = Nobody
  /\ s_open' = (m = "PASSIVE")
  /\ reply' = "none" /\ accepted' = 0
  /\ ForOpenSockets(address)
  /\ UNCHANGED <<direction, client_vars, server_vars, abort>>

(* 150 has been sent and read: both workers start. *)
Begin(d) ==
  /\ c_phase = "idle" /\ s_phase = "idle"
  /\ c_ready /\ s_ready
  /\ direction' = d
  /\ ClientIn("open", Nobody, 0) /\ ServerIn("open", Nobody, 0)
  /\ abort' = "none"
  /\ UNCHANGED <<channel, mode, c_socket, c_ready, server_setup, reply, accepted, network>>

SendAbort ==
  /\ c_phase \notin {"idle", "ok", "failed", "unopened"}
  /\ abort = "none"
  /\ abort' = "sent"
  /\ UNCHANGED <<setup_vars, c_ready, server_setup, client_vars, server_vars,
                 reply, accepted, network>>

(* request_abort, close_current_data_socket, reset_data_connection; without  *)
(* a transfer, nothing.                                                      *)
HandleAbort ==
  /\ abort = "sent"
  /\ IF s_phase # "idle"
       THEN /\ abort' = "handled" /\ reply' = "aborted"
            /\ s_ready' = FALSE /\ s_open' = FALSE
            /\ active_udp_address' = Nobody /\ passive_client_address' = Nobody
       ELSE /\ abort' = "late"
            /\ UNCHANGED <<reply, server_setup>>
  /\ UNCHANGED <<setup_vars, c_ready, client_vars, server_vars, accepted, network>>

User ==
  \/ \E m \in Modes, own \in BOOLEAN :
       Configure(m, IF own /\ m = "ACTIVE" THEN UserPort
                                           ELSE Address("client", channel + 1))
  \/ \E d \in Directions : Begin(d)
  \/ SendAbort \/ HandleAbort

-----------------------------------------------------------------------------
(* The client's worker *)

ClientOnly == UNCHANGED <<setup_vars, server_setup, server_vars, end_vars>>

(* The end of the handshake: send the first window of data, or wait for it. *)
ClientData(peer) ==
  ClientIn(IF direction = "UPLOAD" THEN "send" ELSE "recv", peer, 1)
ClientSends(peer) ==
  IF direction = "UPLOAD" THEN {Packet("DATA", c_socket, peer)} ELSE {}

ClientOpens ==
  /\ c_phase = "open"
  /\ \/ /\ mode = "PASSIVE"
        /\ ClientIn("syn", Nobody, 1)
        /\ Sends({Packet("SYN", c_socket, Server)})
     \/ /\ mode = "ACTIVE" /\ direction = "UPLOAD"
        /\ ClientIn("await", Nobody, 0)
        /\ UNCHANGED network
     \/ /\ mode = "ACTIVE" /\ direction = "DOWNLOAD"     \* expected_peer is None
        /\ ClientIn("recv", Anyone, 1)
        /\ UNCHANGED network
  /\ UNCHANGED <<c_ready, accepted>> /\ ClientOnly

(* _open_passive_peer *)
ClientWantsSynAck(p) ==
  c_phase = "syn" /\ ClientGets("SYN-ACK", p) /\ p.from = Server
ClientReceivesSynAck(p) ==
  /\ ClientWantsSynAck(p)
  /\ ClientData(Server)
  /\ Takes(p, ClientSends(Server))
  /\ UNCHANGED <<c_ready, accepted>> /\ ClientOnly

(* Mutant of SynLeft: one SYN too many.                                      *)
SynLeftOffByOne == c_tries <= PASSIVE_HANDSHAKE_RETRIES

SynLeft == c_tries < PASSIVE_HANDSHAKE_RETRIES

ClientRetriesSyn ==
  /\ c_phase = "syn" /\ c_waited = 1
  /\ IF SynLeft
       THEN ClientIn("syn", Nobody, c_tries + 1)
            /\ Sends({Packet("SYN", c_socket, Server)})
       ELSE ClientIn("unopened", Nobody, 0) /\ UNCHANGED network
  /\ UNCHANGED <<c_ready, accepted>> /\ ClientOnly

(* _wait_for_active_upload_peer: the first SYN from the server's host, which *)
(* is answered once.                                                         *)
ClientWantsSyn(p) == c_phase = "await" /\ ClientGets("SYN", p)
ClientReceivesSyn(p) ==
  /\ ClientWantsSyn(p)
  /\ ClientData(p.from)
  /\ Takes(p, {Packet("SYN-ACK", c_socket, p.from)} \cup ClientSends(p.from))
  /\ UNCHANGED <<c_ready, accepted>> /\ ClientOnly

(* Mutant of ClientAwaitTimeout: every wait has a deadline of its own.       *)
AwaitDeadlineMoves ==
  /\ c_phase = "await" /\ c_waited = ACTIVE_UPLOAD_HANDSHAKE_TIMEOUT
  /\ ClientIn("await", Nobody, 0)
  /\ UNCHANGED <<c_ready, accepted, network>> /\ ClientOnly

ClientAwaitTimeout ==
  /\ c_phase = "await" /\ c_waited = ACTIVE_UPLOAD_HANDSHAKE_TIMEOUT
  /\ ClientIn("unopened", Nobody, 0)
  /\ UNCHANGED <<c_ready, accepted, network>> /\ ClientOnly

(* reliable_send: the data, then the FIN, each until its answer comes.       *)
ClientWantsAck(p) ==
  /\ p.from = c_peer
  /\ \/ c_phase = "send" /\ ClientGets("ACK", p)
     \/ c_phase = "fin" /\ ClientGets("FIN-ACK", p)
ClientReceivesAck(p) ==
  /\ ClientWantsAck(p)
  /\ IF c_phase = "send"
       THEN ClientIn("fin", c_peer, 1) /\ Takes(p, {Packet("FIN", c_socket, c_peer)})
       ELSE ClientIn("ok", c_peer, 0) /\ Takes(p, {})
  /\ UNCHANGED <<c_ready, accepted>> /\ ClientOnly

ClientResends ==
  /\ c_phase \in {"send", "fin"} /\ c_waited = 1
  /\ IF c_tries < DataTimeout
       THEN /\ ClientIn(c_phase, c_peer, c_tries + 1)
            /\ Sends({Packet(IF c_phase = "send" THEN "DATA" ELSE "FIN", c_socket, c_peer)})
       ELSE ClientIn("failed", c_peer, 0) /\ UNCHANGED network
  /\ UNCHANGED <<c_ready, accepted>> /\ ClientOnly

(* reliable_recv: with no expected peer, from any sender.                    *)
ClientWantsData(p) ==
  c_phase = "recv" /\ ClientGets("DATA", p) /\ c_peer \in {Anyone, p.from}
ClientReceivesData(p) ==
  /\ ClientWantsData(p)
  /\ ClientIn("recv", c_peer, 1)
  /\ Takes(p, {Packet("ACK", c_socket, p.from)})
  /\ accepted' = IF accepted = 0 THEN p.from.id ELSE accepted
  /\ UNCHANGED c_ready /\ ClientOnly

(* A FIN counts when the data is there; while the receiver lingers, the      *)
(* sender of that FIN is answered again.                                     *)
ClientWantsFin(p) ==
  /\ c_phase \in {"recv", "linger"} /\ ClientGets("FIN", p)
  /\ c_peer \in {Anyone, p.from} /\ accepted # 0
ClientReceivesFin(p) ==
  /\ ClientWantsFin(p)
  /\ ClientIn("linger", p.from, 0)
  /\ Takes(p, {Packet("FIN-ACK", c_socket, p.from)})
  /\ UNCHANGED <<c_ready, accepted>> /\ ClientOnly

ClientRecvTimeout ==
  /\ \/ c_phase = "recv" /\ c_waited = DataTimeout /\ ClientIn("failed", c_peer, 0)
     \/ c_phase = "linger" /\ c_waited = 1 /\ ClientIn("ok", c_peer, 0)
  /\ UNCHANGED <<c_ready, accepted, network>> /\ ClientOnly

ClientCancelled ==
  /\ abort # "none"
  /\ c_phase \notin {"idle", "ok", "failed", "unopened"}
  /\ ClientIn("failed", c_peer, 0)
  /\ UNCHANGED <<c_ready, accepted, network>> /\ ClientOnly

(* The final reply has been read, and start_transfer's worker resets the     *)
(* data connection.                                                          *)
ClientEnds ==
  /\ c_phase \in {"ok", "failed", "unopened"}
  /\ reply # "none" /\ abort # "sent"
  /\ ClientIn("idle", Nobody, 0)
  /\ c_ready' = FALSE
  /\ UNCHANGED <<accepted, network>> /\ ClientOnly

Client ==
  \/ ClientOpens \/ ClientRetriesSyn \/ ClientAwaitTimeout \/ ClientResends
  \/ ClientRecvTimeout \/ ClientCancelled \/ ClientEnds
  \/ \E p \in fresh \cup late :
       \/ ClientReceivesSynAck(p) \/ ClientReceivesSyn(p) \/ ClientReceivesAck(p)
       \/ ClientReceivesData(p) \/ ClientReceivesFin(p)

-----------------------------------------------------------------------------
(* The server's worker *)

ServerOnly == UNCHANGED <<setup_vars, c_ready, client_vars, abort>>
SetupKept == UNCHANGED server_setup

ServerData(peer) ==
  ServerIn(IF direction = "UPLOAD" THEN "recv" ELSE "send", peer, 1)
ServerSends(peer) ==
  IF direction = "UPLOAD" THEN {} ELSE {Packet("DATA", Server, peer)}
SynAck(peer) == Packet("SYN-ACK", Server, peer)

(* validate_data_connection, then the peer: known, to be found, or to be     *)
(* asked with SYNs.                                                          *)
ServerOpens ==
  /\ s_phase = "open"
  /\ \/ ~s_ready /\ ServerIn("failed", Nobody, 0) /\ UNCHANGED network
     \/ /\ s_ready /\ mode = "PASSIVE"
        /\ IF passive_client_address # Nobody
             THEN /\ ServerData(passive_client_address)
                  /\ Sends(ServerSends(passive_client_address))
             ELSE ServerIn("discover", Nobody, 0) /\ UNCHANGED network
     \/ /\ s_ready /\ mode = "ACTIVE" /\ direction = "DOWNLOAD"
        /\ ServerData(active_udp_address)
        /\ Sends(ServerSends(active_udp_address))
     \/ /\ s_ready /\ mode = "ACTIVE" /\ direction = "UPLOAD"
        /\ ServerIn("syn", active_udp_address, 1)
        /\ Sends({Packet("SYN", Server, active_udp_address)})
  /\ UNCHANGED <<reply, accepted>> /\ ServerOnly /\ SetupKept

(* _discover_passive_peer: the first SYN; on a socket that ABOR has closed   *)
(* in the meantime the answer fails, after the address has been kept.        *)
ServerWantsSyn(p) == s_phase = "discover" /\ ServerGets("SYN", p)
ServerDiscovers(p) ==
  /\ ServerWantsSyn(p)
  /\ passive_client_address' = p.from
  /\ IF s_open THEN ServerData(p.from) /\ Takes(p, {SynAck(p.from)} \cup ServerSends(p.from))
               ELSE ServerIn("failed", Nobody, 0) /\ Takes(p, {})
  /\ UNCHANGED <<s_ready, active_udp_address, s_open, reply, accepted>> /\ ServerOnly

DiscoverTimeout ==
  /\ s_phase = "discover" /\ s_waited = PASSIVE_DISCOVERY_TIMEOUT
  /\ ServerIn("unopened", Nobody, 0)
  /\ UNCHANGED <<reply, accepted, network>> /\ ServerOnly /\ SetupKept

(* Mutant of AttemptLeft: the first attempt without a SYN-ACK is the last.   *)
TimeoutEndsHandshake == FALSE

(* Whether the loop of _open_active_receive_peer has another attempt.        *)
AttemptLeft == s_tries < ACTIVE_HANDSHAKE_RETRIES

(* A second without an answer, or a packet that is not the SYN-ACK, ends an  *)
(* attempt.                                                                  *)
AttemptFails ==
  IF AttemptLeft THEN ServerIn("syn", s_peer, s_tries + 1)
                 ELSE ServerIn("unopened", s_peer, 0)
NextSyn == IF AttemptLeft THEN {Packet("SYN", Server, s_peer)} ELSE {}

(* When data overtakes the SYN-ACK, more of it may follow: each packet of    *)
(* the window, and each retransmission, ends an attempt.                     *)
MoreFollows(p) == p.kind = "DATA" /\ p \in fresh

ServerReceivesSynAck(p) ==
  /\ s_phase = "syn" /\ p.to = Server
  /\ IF p.kind = "SYN-ACK" /\ p.from = s_peer
       THEN ServerData(s_peer) /\ Takes(p, {})
       ELSE /\ AttemptFails
            /\ Takes(p, NextSyn) \/ (MoreFollows(p) /\ Sends(NextSyn))
  /\ UNCHANGED <<reply, accepted>> /\ ServerOnly /\ SetupKept

ServerRetriesSyn ==
  /\ s_phase = "syn" /\ s_waited = 1
  /\ AttemptFails /\ Sends(NextSyn)
  /\ UNCHANGED <<reply, accepted>> /\ ServerOnly /\ SetupKept

(* Mutant of ServerWantsSynAgain: reliable_recv without respond_to_syn.      *)
SenderWantsSynAgain(p) ==
  /\ mode = "PASSIVE" /\ s_phase = "send"
  /\ ServerGets("SYN", p) /\ p.from = s_peer

(* respond_to_syn: a passive server whose SYN-ACK was lost is asked again    *)
(* in the data phase, and starts counting anew.                              *)
ServerWantsSynAgain(p) ==
  /\ mode = "PASSIVE" /\ s_phase \in {"send", "recv"}
  /\ ServerGets("SYN", p) /\ p.from = s_peer
ServerAnswersSynAgain(p) ==
  /\ ServerWantsSynAgain(p)
  /\ ServerIn(s_phase, s_peer, 1)
  /\ Takes(p, {SynAck(s_peer)})
  /\ UNCHANGED <<reply, accepted>> /\ ServerOnly /\ SetupKept

ServerWantsAck(p) ==
  /\ p.from = s_peer
  /\ \/ s_phase = "send" /\ ServerGets("ACK", p)
     \/ s_phase = "fin" /\ ServerGets("FIN-ACK", p)
ServerReceivesAck(p) ==
  /\ ServerWantsAck(p)
  /\ IF s_phase = "send"
       THEN ServerIn("fin", s_peer, 1) /\ Takes(p, {Packet("FIN", Server, s_peer)})
       ELSE ServerIn("ok", s_peer, 0) /\ Takes(p, {})
  /\ UNCHANGED <<reply, accepted>> /\ ServerOnly /\ SetupKept

ServerResends ==
  /\ s_phase \in {"send", "fin"} /\ s_waited = 1
  /\ IF s_tries < DataTimeout
       THEN /\ ServerIn(s_phase, s_peer, s_tries + 1)
            /\ Sends({Packet(IF s_phase = "send" THEN "DATA" ELSE "FIN", Server, s_peer)})
       ELSE ServerIn("failed", s_peer, 0) /\ UNCHANGED network
  /\ UNCHANGED <<reply, accepted>> /\ ServerOnly /\ SetupKept

ServerWantsData(p) == s_phase = "recv" /\ ServerGets("DATA", p) /\ p.from = s_peer
ServerReceivesData(p) ==
  /\ ServerWantsData(p)
  /\ ServerIn("recv", s_peer, 1)
  /\ Takes(p, {Packet("ACK", Server, s_peer)})
  /\ accepted' = IF accepted = 0 THEN p.to.id ELSE accepted
  /\ UNCHANGED reply /\ ServerOnly /\ SetupKept

ServerWantsFin(p) ==
  /\ s_phase \in {"recv", "linger"} /\ ServerGets("FIN", p)
  /\ p.from = s_peer /\ accepted # 0
ServerReceivesFin(p) ==
  /\ ServerWantsFin(p)
  /\ ServerIn("linger", s_peer, 0)
  /\ Takes(p, {Packet("FIN-ACK", Server, s_peer)})
  /\ UNCHANGED <<reply, accepted>> /\ ServerOnly /\ SetupKept

(* Mutant of ServerRecvTimeout: what has come so far is the file.            *)
TimeoutIsEnd ==
  /\ \/ s_phase = "recv" /\ s_waited = DataTimeout /\ ServerIn("ok", s_peer, 0)
     \/ s_phase = "linger" /\ s_waited = 1 /\ ServerIn("ok", s_peer, 0)
  /\ UNCHANGED <<reply, accepted, network>> /\ ServerOnly /\ SetupKept

ServerRecvTimeout ==
  /\ \/ s_phase = "recv" /\ s_waited = DataTimeout /\ ServerIn("failed", s_peer, 0)
     \/ s_phase = "linger" /\ s_waited = 1 /\ ServerIn("ok", s_peer, 0)
  /\ UNCHANGED <<reply, accepted, network>> /\ ServerOnly /\ SetupKept

Over == {"ok", "failed", "unopened"}

(* The cancel event, or the closed socket.                                   *)
ServerCancelled ==
  /\ abort = "handled" /\ s_phase \notin Over \cup {"idle"}
  /\ ServerIn("failed", s_peer, 0)
  /\ UNCHANGED <<reply, accepted, network>> /\ ServerOnly /\ SetupKept

(* The final reply, unless ABOR has answered for it, and finish_transfer.    *)
ServerFinishes ==
  /\ s_phase \in Over
  /\ reply' = IF reply = "aborted" THEN reply
              ELSE IF s_phase = "ok" THEN "226" ELSE "426"
  /\ ServerIn("idle", Nobody, 0)
  /\ UNCHANGED <<accepted, network>> /\ ServerOnly /\ SetupKept

ServerStep ==
  \/ ServerOpens \/ DiscoverTimeout \/ ServerRetriesSyn \/ ServerResends
  \/ ServerRecvTimeout \/ ServerCancelled \/ ServerFinishes
  \/ \E p \in fresh \cup late :
       \/ ServerDiscovers(p) \/ ServerReceivesSynAck(p) \/ ServerAnswersSynAgain(p)
       \/ ServerReceivesAck(p) \/ ServerReceivesData(p) \/ ServerReceivesFin(p)

-----------------------------------------------------------------------------
(* The network and the clock *)

LossCount == losses["SYN"] + losses["SYN-ACK"] + losses["other"]

LossKind(p) == IF p.kind \in {"SYN", "SYN-ACK"} THEN p.kind ELSE "other"

NetworkOnly ==
  UNCHANGED <<setup_vars, c_ready, server_setup, client_vars, server_vars,
              end_vars, accepted>>

Lose(p) ==
  /\ LossCount < MaxLosses
  /\ fresh' = fresh \ {p}
  /\ losses' = [losses EXCEPT ![LossKind(p)] = @ + 1]
  /\ UNCHANGED <<late, copies>> /\ NetworkOnly

Duplicate(p) ==
  /\ copies < MaxCopies
  /\ late' = late \cup {p} /\ copies' = copies + 1
  /\ UNCHANGED <<fresh, losses>> /\ NetworkOnly

Wanted(p) ==
  \/ ClientWantsSynAck(p) \/ ClientWantsSyn(p) \/ ClientWantsAck(p)
  \/ ClientWantsData(p) \/ ClientWantsFin(p)
  \/ ServerWantsSyn(p) \/ (s_phase = "syn" /\ p.to = Server)
  \/ ServerWantsSynAgain(p) \/ ServerWantsAck(p)
  \/ ServerWantsData(p) \/ ServerWantsFin(p)

(* A packet that its reader skips, or that nobody reads.                     *)
Discard(p) ==
  /\ "open" \notin {c_phase, s_phase} /\ ~Wanted(p)
  /\ fresh' = fresh \ {p}
  /\ UNCHANGED <<late, losses, copies>> /\ NetworkOnly

Network == \E p \in fresh : Lose(p) \/ Duplicate(p) \/ Discard(p)

(* How long a phase waits before something happens in it.                    *)
Patience == [phase \in {"syn", "send", "fin", "linger", "recv", "discover", "await"} |->
  CASE phase = "recv" -> DataTimeout
    [] phase = "discover" -> PASSIVE_DISCOVERY_TIMEOUT
    [] phase = "await" -> ACTIVE_UPLOAD_HANDSHAKE_TIMEOUT
    [] OTHER -> 1]
Timed == DOMAIN Patience

(* A second passes when every packet has arrived and nobody has work to do.  *)
Tick ==
  /\ fresh = {}
  /\ c_phase \in Timed \/ s_phase \in Timed
  /\ c_phase \in Timed => abort = "none" /\ c_waited < Patience[c_phase]
  /\ s_phase \in Timed => abort # "handled" /\ s_waited < Patience[s_phase]
  /\ "open" \notin {c_phase, s_phase} /\ s_phase \notin Over
  /\ c_waited' = IF c_phase \in Timed THEN c_waited + 1 ELSE c_waited
  /\ s_waited' = IF s_phase \in Timed THEN s_waited + 1 ELSE s_waited
  /\ UNCHANGED <<setup_vars, c_ready, server_setup, c_phase, c_peer, c_tries,
                 s_phase, s_peer, s_tries, end_vars, accepted, network>>

Next == User \/ Client \/ ServerStep \/ Network \/ Tick

Spec == Init /\ [][Next]_vars

(* Both threads run, sockets deliver or drop what has arrived, ABOR arrives, *)
(* and time passes.                                                          *)
Discards == \E p \in fresh : Discard(p)
FairSpec ==
  /\ Spec
  /\ WF_vars(Client) /\ WF_vars(ServerStep) /\ WF_vars(Discards)
  /\ WF_vars(HandleAbort) /\ WF_vars(Tick)

-----------------------------------------------------------------------------
(* Properties *)

(* The state is in range: attempts and waiting times stay within the limits  *)
(* of data_channel.py, transfer_handler.py and rdt_core.py.                  *)
TypeOK ==
  /\ channel \in 0..MaxChannels /\ mode \in Modes /\ direction \in Directions
  /\ {c_socket, active_udp_address, passive_client_address, c_peer, s_peer}
       \subseteq Addresses \cup {Nobody, Anyone}
  /\ {c_ready, s_ready, s_open} \subseteq BOOLEAN
  /\ c_phase \in Timed \cup Over \cup {"idle", "open"} /\ c_phase # "discover"
  /\ s_phase \in Timed \cup Over \cup {"idle", "open"} /\ s_phase # "await"
  /\ c_tries \in 0..(IF c_phase = "syn" THEN PASSIVE_HANDSHAKE_RETRIES ELSE DataTimeout)
  /\ s_tries \in 0..(IF s_phase = "syn" THEN ACTIVE_HANDSHAKE_RETRIES ELSE DataTimeout)
  /\ c_waited \in 0..(IF c_phase \in Timed THEN Patience[c_phase] ELSE 0)
  /\ s_waited \in 0..(IF s_phase \in Timed THEN Patience[s_phase] ELSE 0)
  /\ abort \in {"none", "sent", "handled", "late"} /\ reply \in {"none", "226", "426", "aborted"}
  /\ accepted \in 0..MaxChannels
  /\ fresh \cup late \subseteq Packets
  /\ losses \in [{"SYN", "SYN-ACK", "other"} -> 0..MaxLosses] /\ copies \in 0..MaxCopies

(* A client socket on a port that an earlier channel may have used.          *)
OnReusedPort == mode = "ACTIVE" /\ c_socket = UserPort

(* What each end has settled on is the other end's socket of this channel:   *)
(* no address of an earlier transfer is used, whatever arrives late.  Only   *)
(* _wait_for_active_upload_peer on a reused port may take an old SYN of the  *)
(* server for a new one, and an active download asks nobody.                 *)
PeersAgree ==
  /\ s_peer \in {Nobody, c_socket}
  /\ c_peer \in {Nobody, Anyone, Server} \/ OnReusedPort

(* README.md:52: a passive handshake survives lost SYNs and SYN-ACKs.  As    *)
(* long as fewer packets are lost than the data phase has seconds, neither   *)
(* _open_passive_peer nor _discover_passive_peer gives up, although a server *)
(* whose SYN-ACK was lost has left the handshake.                            *)
PassiveChannelOpens ==
  mode = "PASSIVE" /\ abort = "none" /\ LossCount < DataTimeout
    => "unopened" \notin {c_phase, s_phase}

(* On a port of its own an active upload is given up in the handshake only   *)
(* for one of three reasons: the SYN of every attempt was lost; the client's *)
(* SYN-ACK, which it sends once, was lost; or that SYN-ACK is still under    *)
(* way, overtaken by the data, whose packets have used up the attempts of    *)
(* _open_active_receive_peer although nothing was lost.  No other order of   *)
(* timeouts, late copies and retries ends it, at neither end.                *)
SynAckOvertaken == \E p \in fresh : p.kind = "SYN-ACK" /\ p.to = Server
GivesUpOpening ==
  /\ mode = "ACTIVE" /\ direction = "UPLOAD" /\ ~OnReusedPort /\ abort = "none"
  /\ \/ c_phase # "unopened" /\ c_phase' = "unopened"
     \/ s_phase # "unopened" /\ s_phase' = "unopened"
ActiveUploadOpens ==
  [][GivesUpOpening => \/ losses["SYN"] >= ACTIVE_HANDSHAKE_RETRIES
                       \/ losses["SYN-ACK"] > 0
                       \/ SynAckOvertaken]_vars

(* After 226 the receiver has the data of this very channel; on a reused     *)
(* port a download may have taken late data of an earlier one.               *)
SuccessIsDelivery ==
  reply = "226" =>
    accepted = channel \/ (OnReusedPort /\ direction = "DOWNLOAD" /\ accepted # 0)

(* Whatever is lost or comes late, both workers end: no handshake and no     *)
(* data phase waits for ever for an end that has given up.                   *)
TransferEnds == []<>(c_phase = "idle" /\ s_phase = "idle")
=============================================================================
