---------------------------- MODULE MCMsgServer -----------------------------
(***************************************************************************)
(* MsgServer for TLC, both builds in one run: each behaviour is one of the *)
(* POSIX build or of the System V build, whose state is in variables of    *)
(* its own, and the build that does not run stays as it was initially.     *)
(***************************************************************************)
EXTENDS MsgServer

VARIABLES
  build,  \* the build that runs
  slots,  \* the slots of the System V server
  v_pc, v_client_id, v_nostop, v_buf, v_lines, v_queues, v_cqueue, v_inbox,
  v_srv, v_end, v_response, v_clients, v_opened

MidSession == {"prompt", "await"}
Everywhere == {"greet", "shake", "prompt", "await", "ended", "stop", "close"}

(* System V: SIGINT anywhere, to the server too.  Two clients have one     *)
(* slot, where the second finds the limit reached, or two slots, where the *)
(* client with id 0 is never answered and the one with id 1 is served.     *)
SysV(n) == INSTANCE MsgServer
          WITH POSIXQ <- FALSE, CLIENT_MAX <- n, QueueMax <- 2,
               Words <- {"mirror", "end"}, Separators <- {"space"},
               InterruptAt <- Everywhere, ServerSignals <- TRUE,
               pc <- v_pc, client_id <- v_client_id, nostop <- v_nostop,
               buf <- v_buf, lines <- v_lines, queues <- v_queues,
               cqueue <- v_cqueue, inbox <- v_inbox, srv <- v_srv,
               end <- v_end, response <- v_response, clients <- v_clients,
               opened <- v_opened

v_vars == <<v_pc, v_client_id, v_nostop, v_buf, v_lines, v_queues, v_cqueue,
            v_inbox, v_srv, v_end, v_response, v_clients, v_opened>>

SlotCounts == {1, 2}

BuildsInit ==
  /\ build \in {"POSIX", "System V"}
  /\ slots \in SlotCounts
  /\ build = "POSIX" => slots = 1
  /\ Init
  /\ \E n \in SlotCounts : slots = n /\ SysV(n)!Init

BuildsNext ==
  /\ UNCHANGED <<build, slots>>
  /\ \/ build = "POSIX" /\ Next /\ UNCHANGED v_vars
     \/ /\ build = "System V"
        /\ \E n \in SlotCounts : slots = n /\ SysV(n)!Next
        /\ UNCHANGED vars

BuildsFairness ==
  /\ WF_vars(build = "POSIX" /\ ServerStep)
  /\ \A c \in Clients : WF_vars(build = "POSIX" /\ ClientStep(c))
  /\ \A n \in SlotCounts :
       /\ WF_v_vars(build = "System V" /\ slots = n /\ SysV(n)!ServerStep)
       /\ \A c \in Clients :
            WF_v_vars(build = "System V" /\ slots = n /\ SysV(n)!ClientStep(c))

BuildsSpec ==
  BuildsInit /\ [][BuildsNext]_<<build, slots, vars, v_vars>> /\ BuildsFairness

(* In the System V build a client that was interrupted comes to its end,   *)
(* wherever the SIGINT came, before its session, in it or after it, with   *)
(* one slot or with two (client.c:36-58).  The formula is about pc only,   *)
(* so it is the same for every number of slots.                            *)
SysVInterruptedClientsEnd == SysV(1)!InterruptedClientsEnd
=============================================================================
