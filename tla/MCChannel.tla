------------------------------ MODULE MCChannel ------------------------------
(* The instances of ChannelProps that TLC checks. *)
EXTENDS ChannelProps

Opens(kind, by, c, s, x) ==
    [kind |-> kind, by |-> by, client |-> c, server |-> s, err |-> x]

\* A terminal; commands that write to either output, and one that may close its
\* input too early; more bytes than the window; two forwarded connections, one
\* after or beside the other, asked for by either end.
MCPlans == { <<Opens("tty", "client", 1, 2, 0)>>,
             <<Opens("exec", "client", 0, 1, 0)>>, <<Opens("exec", "client", 0, 0, 1)>>,
             <<Opens("exec", "client", 1, 0, 0)>>,
             <<Opens("tcp", "client", 3, 1, 0)>>,
             <<Opens("tcp", "client", 1, 0, 0), Opens("tcp", "server", 0, 0, 0)>> }

\* The same kinds with fewer bytes, for the liveness check.
MCEndingPlans == { <<Opens("tty", "client", 0, 1, 0)>>,
                   <<Opens("exec", "client", 1, 0, 0)>>,
                   <<Opens("exec", "client", 0, 0, 1)>>,
                   <<Opens("tcp", "client", 3, 0, 0)>> }

=============================================================================
