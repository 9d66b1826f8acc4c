------------------------------- MODULE TcpCtrl -------------------------------
(***************************************************************************)
(* What the TCP engine of the card makes of a segment or of a segment it   *)
(* has sent: the state machine (tcp_fsm.sv) and the update of a control    *)
(* block (tcp_ctrl.sv), both without state of their own.  A header's flags *)
(* are the set of those that are on.                                       *)
(*                                                                         *)
(* Sequence numbers are natural numbers; len_num is left out, since        *)
(* nothing ever sets it (tcb_mgr.sv:172-191) and it stays zero.            *)
(***************************************************************************)
EXTENDS Naturals, FiniteSetsExt

CONSTANTS
    LastTry     \* the backoff_exp at which the engine gives up ('d4)

SYN     == {"syn"}
ACK     == {"ack"}
RST     == {"rst"}
FIN     == {"fin"}
SYN_ACK == {"syn", "ack"}
FIN_ACK == {"fin", "ack"}

\* A control block that has been written with zeroes.
NoTcb == [ curr |-> "CLOSED", next |-> "CLOSED", seq_num |-> 0, ack_num |-> 0,
           snd_una |-> 0, snd_nxt |-> 0, rcv_nxt |-> 0,
           next_send_time |-> 0, backoff_exp |-> 0, csr |-> {}, conn |-> "none" ]

\* new_packet_tcb: the block of a connection whose SYN is h.
FreshTcb(h) ==
    [ NoTcb EXCEPT !.seq_num = h.seq, !.ack_num = h.ack, !.snd_nxt = 1, !.conn = h.conn ]

One(b) == IF b THEN 1 ELSE 0

-----------------------------------------------------------------------------
(***************************************************************************)
(* tcp_fsm.sv, for a segment with flags rx in state s                      *)
(***************************************************************************)
Exact == {"CLOSED", "LISTEN", "SYN_RECV"}      \* these compare all the flags

\* The first rule of the list whose flags are in the segment, or else otherwise.
Matches(s, flags, rx) == IF s \in Exact THEN flags = rx ELSE flags \subseteq rx
FirstOf(hits, rules, otherwise) == IF hits = {} THEN otherwise ELSE rules[Min(hits)]

\* What a segment is answered with, and whether the connection ends there.
AnswerRules(s) ==
    LET sends(flags, answer) == [flags |-> flags, answer |-> answer, ends |-> FALSE]
        kills(flags, answer) == [flags |-> flags, answer |-> answer, ends |-> TRUE]
    IN  CASE s = "CLOSED"      -> << kills(SYN, RST), kills(ACK, RST), kills(FIN, RST) >>
          [] s = "LISTEN"      -> << sends(SYN, SYN_ACK), kills(RST, {}) >>
          [] s = "SYN_RECV"    -> << sends(SYN, SYN_ACK), sends(ACK, {}), kills(RST, {}) >>
          [] s = "SYN_SENT"    -> << sends(SYN_ACK, ACK), sends(SYN, SYN_ACK), kills(RST, {}) >>
          [] s = "ESTABLISHED" -> << sends(FIN, FIN_ACK), kills(SYN, RST), sends(ACK, {}),
                                     kills(RST, {}) >>
          [] OTHER             -> << sends(FIN, FIN_ACK), sends(ACK, {}), kills(RST, {}) >>

Verdict(s, rx) ==
    FirstOf({i \in DOMAIN AnswerRules(s) : Matches(s, AnswerRules(s)[i].flags, rx)},
            AnswerRules(s),
            IF s = "CLOSED" THEN [flags |-> rx, answer |-> {}, ends |-> FALSE]
            ELSE [flags |-> rx, answer |-> RST, ends |-> TRUE])

\* tcp_next_t: pairs of the flags tested and the state entered.
Transitions(s) ==
    CASE s = "CLOSED"      -> << << {}, "LISTEN" >> >>
      [] s = "LISTEN"      -> << << SYN, "SYN_RECV" >> >>
      [] s = "SYN_RECV"    -> << << ACK, "ESTABLISHED" >>, << RST, "CLOSED" >> >>
      [] s = "SYN_SENT"    -> << << RST, "CLOSED" >>, << SYN_ACK, "ESTABLISHED" >>,
                                 << SYN, "SYN_RECV" >> >>
      [] s = "ESTABLISHED" -> << << RST, "CLOSED" >>, << FIN, "TIME_WAIT" >> >>
      [] s = "FIN_1"       -> << << RST, "CLOSED" >>, << FIN, "TIME_WAIT" >>, << ACK, "FIN_2" >> >>
      [] s = "FIN_2"       -> << << RST, "CLOSED" >>, << FIN, "TIME_WAIT" >> >>
      [] s = "CLOSING"     -> << << RST, "CLOSED" >>, << ACK, "TIME_WAIT" >> >>
      [] s = "CLOSE_WAIT"  -> << << RST, "CLOSED" >> >>
      [] s = "LAST_ACK"    -> << << RST, "CLOSED" >>, << ACK, "CLOSED" >> >>
      [] s = "TIME_WAIT"   -> << << {}, "CLOSED" >> >>

NextState(s, rx) ==
    IF Verdict(s, rx).ends THEN "CLOSED"
    ELSE FirstOf({i \in DOMAIN Transitions(s) : Transitions(s)[i][1] \subseteq rx},
                 Transitions(s), << {}, s >>)[2]

-----------------------------------------------------------------------------
(***************************************************************************)
(* tcp_ctrl.sv: the block that is written back, and what goes with it      *)
(***************************************************************************)
\* A segment with header h for a connection with block t; new is new_packet_d.
Ingress(t, h, new) ==
    LET s       == IF new THEN "LISTEN" ELSE t.curr
        forged  == "ack" \in h.csr /\ s = "SYN_RECV" /\ t.ack_num > t.snd_nxt
        acks    == "ack" \in h.csr /\ ~forged /\ t.ack_num > t.snd_una
        rcv_nxt == CASE new -> t.seq_num + 1
                     [] ~new /\ h.seq = t.rcv_nxt ->
                            h.seq + One("syn" \in h.csr) + One("fin" \in h.csr)
                     [] OTHER -> t.rcv_nxt
    IN  [ invalidate |-> Verdict(s, h.csr).ends,
          cancel     |-> h.csr = ACK,
          tcb |-> [ t EXCEPT !.curr = NextState(s, h.csr), !.next = NextState(s, h.csr),
                             !.csr  = IF forged THEN RST ELSE Verdict(s, h.csr).answer,
                             !.next_send_time = 0,
                             !.backoff_exp    = One(~new),
                             !.snd_una = IF acks THEN t.ack_num ELSE @,
                             !.rcv_nxt = rcv_nxt ] ]

\* Mutant: the backoff of a retransmission does not grow.
EgressNoBackoff(t) ==
    [ invalidate |-> FALSE, cancel |-> FALSE,
      tcb |-> [ t EXCEPT !.curr = t.next, !.seq_num = t.snd_nxt, !.ack_num = t.rcv_nxt,
                         !.next_send_time = 1, !.backoff_exp = 1 ] ]

\* A segment of the connection has been handed to the transmit path.
Egress(t) ==
    LET first == t.next_send_time = 0
        gives == ~first /\ t.backoff_exp = LastTry
    IN  [ invalidate |-> gives,
          cancel     |-> FALSE,
          tcb |-> [ t EXCEPT !.curr = t.next, !.seq_num = t.snd_nxt, !.ack_num = t.rcv_nxt,
                             !.csr = IF gives THEN RST ELSE @,
                             !.next_send_time = IF gives THEN @ ELSE 1,
                             !.backoff_exp = IF first THEN 1 ELSE IF gives THEN @ ELSE @ + 1,
                             !.snd_nxt = IF first THEN @ + One("syn" \in t.csr) + One("fin" \in t.csr)
                                         ELSE @ ] ]
=============================================================================
