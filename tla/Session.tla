------------------------------- MODULE Session -------------------------------
(***************************************************************************)
(* One direction of an established noise session (noise/session.rs): the   *)
(* sender numbers its packets with sending_key_counter, the network loses, *)
(* reorders, repeats and forges them, and the receiver accepts each number *)
(* at most once by a sliding bitmap of N_BITS bits.                        *)
(*                                                                         *)
(* A packet in flight needs no variable of its own: whatever has been      *)
(* sealed may arrive now, again, later or never.  A forged packet may      *)
(* carry any number; the decryption rejects it, before anything is marked. *)
(*                                                                         *)
(* receive_packet_data takes the validator's mutex twice, for the quick    *)
(* check and for the mark after the decryption.  Every caller holds the    *)
(* peer's mutex (decapsulate takes &mut self), so no other call comes      *)
(* between the two and receive_packet_data is one action.                  *)
(***************************************************************************)
EXTENDS Integers

CONSTANTS
    WORD_SIZE,      \* bits in a word of the bitmap (64)
    N_WORDS,        \* words in the bitmap (16)
    MaxCounter      \* bound: the last packet number the sender uses

ASSUME WindowAssumption ==
    /\ WORD_SIZE \in Nat \ {0}
    /\ N_WORDS \in Nat \ {0}

ASSUME BoundAssumption == MaxCounter \in Nat

N_BITS == WORD_SIZE * N_WORDS

Counters == 0..MaxCounter

VARIABLES
    sending_key_counter,  \* next number of the sender
    next,                 \* one above the highest number received
    bitmap,               \* the positions of the bits that are 1
    receive_cnt,          \* packets accepted, for the loss estimate
    handed                \* history: times each packet was handed upwards

validator == <<next, bitmap, receive_cnt>>
vars == <<sending_key_counter, next, bitmap, receive_cnt, handed>>

TypeOK ==
    /\ sending_key_counter \in 0..(MaxCounter + 1)
    /\ next \in 0..(MaxCounter + 1)
    /\ bitmap \subseteq 0..(N_BITS - 1)
    /\ receive_cnt \in Nat
    /\ handed \in [Counters -> Nat]

Init ==
    /\ sending_key_counter = 0
    /\ next = 0
    /\ bitmap = {}
    /\ receive_cnt = 0
    /\ handed = [c \in Counters |-> 0]

-----------------------------------------------------------------------------
(* The validator (ReceivingKeyCounterValidator).                           *)

Bit(c) == c % N_BITS

\* Mutant: the oldest number of the window is taken for too old.
InReachShort(c) == c + N_BITS > next

\* Not so old that its bit already stands for a later packet.
InReach(c) == c + N_BITS >= next

\* Whether receiving_counter_quick_check returns Ok.
WillAccept(c) == c >= next \/ (InReach(c) /\ Bit(c) \notin bitmap)

\* Mutant: a word that ends beyond c is cleared whole.
WholeWordsBeyond(c) == {w \in next..c : w % WORD_SIZE = 0}

\* When packet c jumps ahead of next, the numbers next .. c-1 are skipped and
\* their bits must be cleared.  The code clears whole words where it can: those
\* that begin in the gap and end before c ...
WholeWords(c) == {w \in next..c : w % WORD_SIZE = 0 /\ w + WORD_SIZE < c}

\* Mutant: the first number of the gap is forgotten.
SingleBitsAfter(c) ==
    {i \in (next + 1)..(c - 1) :
        \A w \in WholeWords(c) : ~(w <= i /\ i < w + WORD_SIZE)}

\* ... and bit by bit the numbers of the gap outside those words.
SingleBits(c) ==
    {i \in next..(c - 1) :
        \A w \in WholeWords(c) : ~(w <= i /\ i < w + WORD_SIZE)}

WordOf(p) == p \div WORD_SIZE

Cleared(c) ==
    IF c - next >= N_BITS
    THEN 0..(N_BITS - 1)
    ELSE {p \in 0..(N_BITS - 1) :
            \/ \E i \in SingleBits(c) : p = Bit(i)
            \/ \E w \in WholeWords(c) : WordOf(p) = WordOf(Bit(w))}

\* Whether mark_did_receive returns Ok.
MarkAccepts(c) ==
    /\ InReach(c)
    /\ c < next => Bit(c) \notin bitmap

\* Mutant: next stays at the number just received.
DoMarkShort(c) ==
    /\ bitmap' = (IF c > next THEN bitmap \ Cleared(c) ELSE bitmap) \cup {Bit(c)}
    /\ next' = IF c < next THEN next ELSE c

\* What mark_did_receive does to the validator when it returns Ok.
DoMark(c) ==
    /\ bitmap' = (IF c > next THEN bitmap \ Cleared(c) ELSE bitmap) \cup {Bit(c)}
    /\ next' = IF c < next THEN next ELSE c + 1

-----------------------------------------------------------------------------
(* The operations.                                                         *)

\* format_packet_data: take the next number and seal the packet with it.
FormatPacketData ==
    /\ sending_key_counter <= MaxCounter
    /\ sending_key_counter' = sending_key_counter + 1
    /\ UNCHANGED <<next, bitmap, receive_cnt, handed>>

\* Both checks of receive_packet_data.
Accepts(c) == WillAccept(c) /\ MarkAccepts(c)

\* Mutant: the number is marked and the packet handed up without its having
\* been opened.
ReceiveUnopened(c) ==
    /\ Accepts(c)
    /\ DoMark(c)
    /\ receive_cnt' = receive_cnt + 1
    /\ handed' = [handed EXCEPT ![c] = @ + 1]
    /\ UNCHANGED sending_key_counter

\* receive_packet_data of packet c, which the peer has sealed and which passes
\* both checks: it is marked, counted and handed upwards.  One that fails a check
\* or the decryption changes nothing.
ReceivePacketData(c) ==
    /\ c < sending_key_counter
    /\ Accepts(c)
    /\ DoMark(c)
    /\ receive_cnt' = receive_cnt + 1
    /\ handed' = [handed EXCEPT ![c] = @ + 1]
    /\ UNCHANGED sending_key_counter

Next == FormatPacketData \/ \E c \in Counters : ReceivePacketData(c)

Spec == Init /\ [][Next]_vars

-----------------------------------------------------------------------------
(* Properties.                                                             *)

\* No packet is handed to the tunnel twice, whatever the network repeats and in
\* whatever order its packets come (both checks of receive_packet_data).
NoReplay == \A c \in Counters : handed[c] <= 1

\* The numbers the bitmap speaks for.
Window == {c \in Counters : c < next /\ InReach(c)}

\* The bitmap tells exactly which packets of its window were accepted: no bit
\* survives from a packet N_BITS earlier and none is lost when the window
\* moves (the three clearing loops of mark_did_receive).
WindowExact == \A c \in Window : Bit(c) \in bitmap <=> handed[c] > 0

\* Everything handed upwards was sealed by the peer and lies below next.
HandedWasSealed ==
    \A c \in Counters : handed[c] > 0 => c < next /\ c < sending_key_counter

\* The loss estimate 1 - receive_cnt / next of Tunn::estimate_loss stays
\* between 0 and 1: at most next packets are counted.
LossInRange == receive_cnt <= next

\* A packet of the peer that arrives now is refused, by the quick check or by
\* the mark, only if it was handed upwards before, or if one at least N_BITS
\* later was: the receiver itself loses nothing that is less than a window late.
NoFalseReject ==
    \A c \in Counters :
        c < sending_key_counter /\ ~Accepts(c)
            => \/ handed[c] > 0
               \/ \E d \in Counters : d >= c + N_BITS /\ handed[d] > 0

\* The session implements at-most-once delivery.
Abstract == INSTANCE AtMostOnce WITH sealed <- sending_key_counter

DeliversAtMostOnce == Abstract!Spec
==============================================================================
