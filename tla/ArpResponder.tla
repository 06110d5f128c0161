----------------------------- MODULE ArpResponder -----------------------------
(***************************************************************************)
(* src/src/upd_stack.c: a program that reads frames from a netmap ring,    *)
(* prints UDP bodies and answers ARP frames for one address.  It handles   *)
(* one frame for every poll() and does not look at what nm_inject()        *)
(* returns.  To print a UDP body it stores a zero behind it, at the length *)
(* the frame names, which it does not compare with the frame's own: the    *)
(* store may hit another buffer of the rings, or no memory at all.         *)
(***************************************************************************)
EXTENDS Naturals, Sequences

CONSTANTS Hosts,     \* the other machines on the wire, by address
          Own,       \* the address the program answers for
          Nobody,    \* the hardware address in a question
          RingSize   \* slots of the receive ring, and of the transmit ring

ASSUME ArpAssumption == Own \notin Hosts /\ RingSize \in Nat \ {0}

\* A machine's hardware address is known by the same name as its address.
Address == Hosts \cup {Own}
Named == Address \cup {Nobody}

\* Two fields are not in the frame itself: beyond, its UDP length reaches past
\* the buffer it is in, and torn, a stray zero was stored in it.
Frame == [proto : {"arp", "udp", "other"}, dest : Named, source : Named,
          oper : {0, 1, 2}, smac : Named, sip : Named, dmac : Named, dip : Named,
          beyond : BOOLEAN, torn : BOOLEAN]

VARIABLES rx, tx,   \* the receive and the transmit ring
          alive     \* the program runs

arpVars == <<rx, tx, alive>>

ArpInit == rx = << >> /\ tx = << >> /\ alive = TRUE

\* The answer is a copy of the frame with the two sides exchanged.  Questions
\* and answers (oper 1 and 2) are not told apart.
EchoArpInPlace(arp) ==
    LET first == [arp EXCEPT !.sip = arp.dip, !.smac = Own]
    IN  [first EXCEPT !.dest = arp.source, !.source = Own, !.oper = 2,
                      !.dmac = first.smac, !.dip = first.sip]
EchoArp(arp) ==
    [proto |-> arp.proto, dest |-> arp.source, source |-> Own,
     oper |-> 2, smac |-> Own, sip |-> arp.dip,
     dmac |-> arp.smac, dip |-> arp.sip,
     beyond |-> arp.beyond, torn |-> arp.torn]

\* nm_inject() returns 0 when the transmit ring is full: the answer is lost.
Injected(frame) == IF Len(tx) < RingSize THEN Append(tx, frame) ELSE tx

\* What a zero in it may make of a frame: one for IP, or for another address.
\* Of a torn frame only what the program looks at is kept.
Torn(frame) ==
    {torn \in [proto : {frame.proto, "udp", "other"}, dest : {Nobody},
               source : {Nobody}, oper : {0}, smac : {Nobody}, sip : {Nobody},
               dmac : {Nobody}, dip : {frame.dip, Nobody},
               beyond : BOOLEAN, torn : {TRUE}] :
        /\ torn.dip # Nobody => torn.proto = "arp" /\ torn.dip = Own
        /\ torn.beyond => torn.proto = "udp"}

Tears(ring, after) ==
    \E i \in 1 .. Len(ring) : \E frame \in Torn(ring[i]) :
        after = [ring EXCEPT ![i] = frame]

Answers ==
    /\ Head(rx).proto = "arp" /\ Head(rx).dip = Own
    /\ tx' = Injected(EchoArp(Head(rx)))
    /\ rx' = Tail(rx)
    /\ UNCHANGED alive

\* body[udp_length-8] = '\0', in this frame's buffer or in an unused one.
Prints ==
    /\ Head(rx).proto = "udp"
    /\ rx' = Tail(rx)
    /\ UNCHANGED <<tx, alive>>

\* The same store, in another frame's buffer or outside the mapped memory.
StoresBeyond ==
    /\ Head(rx).proto = "udp" /\ Head(rx).beyond
    /\ \/ Tears(Tail(rx), rx') /\ UNCHANGED <<tx, alive>>
       \/ Tears(tx, tx') /\ rx' = Tail(rx) /\ UNCHANGED alive
       \/ alive' = FALSE /\ rx' = << >> /\ tx' = << >>

Skips ==
    /\ ~(Head(rx).proto = "arp" /\ Head(rx).dip = Own) /\ Head(rx).proto # "udp"
    /\ rx' = Tail(rx)
    /\ UNCHANGED <<tx, alive>>

Handle == rx # << >> /\ (Answers \/ Prints \/ StoresBeyond \/ Skips)

\* The wire brings a frame of a host, which may ask for some address, announce
\* its own or send something else; a full ring drops it.
Receive(h, proto, oper, dmac, dip, beyond) ==
    /\ alive /\ Len(rx) < RingSize
    /\ rx' = Append(rx, [proto |-> proto, dest |-> dmac, source |-> h,
                         oper |-> oper, smac |-> h, sip |-> h,
                         dmac |-> dmac, dip |-> dip,
                         beyond |-> beyond, torn |-> FALSE])
    /\ UNCHANGED <<tx, alive>>

Transmit == tx # << >> /\ tx' = Tail(tx) /\ UNCHANGED <<rx, alive>>

ArpNext ==
    \/ Handle \/ Transmit
    \/ \E h \in Hosts, oper \in {1, 2}, dip \in Address, dmac \in {Own, Nobody} :
          Receive(h, "arp", oper, dmac, dip, FALSE)
    \/ \E h \in Hosts, beyond \in BOOLEAN : Receive(h, "udp", 1, Own, Own, beyond)
    \/ \E h \in Hosts : Receive(h, "other", 1, Own, Own, FALSE)

ArpSpec == ArpInit /\ [][ArpNext]_arpVars

-----------------------------------------------------------------------------
(* Properties.                                                             *)

\* What is injected is an answer to the machine that asked: it goes to its
\* hardware address and names both sides by the addresses of the question,
\* although it is built over a copy of it.  It is said of an answer that no
\* stray store has hit, nor the question it copies.
AnswersAddressed ==
    \A i \in 1 .. Len(tx) :
        LET frame == tx[i]
        IN  ~frame.torn =>
            /\ frame.proto = "arp" /\ frame.oper = 2
            /\ frame.sip = Own /\ frame.smac = Own /\ frame.source = Own
            /\ frame.dip \in Hosts
            /\ frame.dest = frame.dip /\ frame.dmac = frame.dip

=============================================================================
