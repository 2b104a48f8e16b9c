------------------------------ MODULE MCServers ------------------------------
(* The two servers made after the Boost.Asio examples and the shell of the
   file transfer program, side by side: each behaviour is one of the TCP echo,
   of the daytime server or of the shell; the state of the others stays at one
   initial value. *)
EXTENDS TcpEcho, Daytime, WordShell

VARIABLE program

MCInit ==
  /\ program \in {"echo", "daytime", "shell"}
  /\ Init /\ DaytimeInit /\ ShellInit
  /\ program = "echo" \/ \A c \in Clients : request_length[c] = 0

MCNext ==
  \/ program = "echo" /\ Next /\ UNCHANGED <<program, daytimeVars, wordsVars>>
  \/ program = "daytime" /\ DaytimeNext /\ UNCHANGED <<program, vars, wordsVars>>
  \/ program = "shell" /\ ShellNext /\ UNCHANGED <<program, vars, daytimeVars>>

MCSpec ==
  /\ MCInit /\ [][MCNext]_<<program, vars, daytimeVars, wordsVars>>
  /\ Fairness /\ DaytimeFairness
=============================================================================
