---------------------------- MODULE LineChannel -----------------------------
(***************************************************************************)
(* What cw09's bounded buffer promises to the threads around it: each      *)
(* producer puts the non-empty lines of its file into the channel, in      *)
(* order and without leaving one out, and the consumers take the lines     *)
(* out in exactly the order in which they were put, each line once.        *)
(***************************************************************************)
EXTENDS Naturals, Sequences

CONSTANTS Producers,  \* the producer threads
          File        \* File[i]: length of the i-th line of the input file

VARIABLES sent,   \* sent[p]: index of the last line producer p put
          log,    \* every line that was put, in order
          taken   \* every line that was taken, in order

channelVars == <<sent, log, taken>>

\* Line i is the first non-empty line after line j.
Follows(i, j) == /\ i \in DOMAIN File
                 /\ j < i
                 /\ File[i] > 0
                 /\ \A k \in DOMAIN File : j < k /\ k < i => File[k] = 0

ChannelInit == /\ sent = [p \in Producers |-> 0]
               /\ log = <<>>
               /\ taken = <<>>

Put(p, i) == /\ Follows(i, sent[p])
             /\ sent' = [sent EXCEPT ![p] = i]
             /\ log' = Append(log, <<p, i>>)
             /\ UNCHANGED taken

Take == /\ Len(taken) < Len(log)
        /\ taken' = Append(taken, log[Len(taken) + 1])
        /\ UNCHANGED <<sent, log>>

ChannelNext == Take \/ \E p \in Producers, i \in DOMAIN File : Put(p, i)

ChannelSpec == ChannelInit /\ [][ChannelNext]_channelVars
=============================================================================
