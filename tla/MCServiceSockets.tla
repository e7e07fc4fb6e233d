-------------------------- MODULE MCServiceSockets --------------------------
(* Small instances of ServiceSockets.  A slow connection sends two requests, *)
(* so that an answer queues behind the rest of another, and an agent         *)
(* registers and answers; idle ones only take up a descriptor.               *)
EXTENDS ServiceSockets

CONSTANT Idle  \* connections that send nothing

MCMaxFrames == [c \in Conns |-> IF c \in Slow \cup AgentConns THEN 2
                                ELSE IF c \in Idle THEN 0 ELSE 1]
=============================================================================
