---------------------------- MODULE MCMatchServer -----------------------------
(* Small instances of MatchServer for TLC. *)
EXTENDS MatchServer, TLC

CONSTANTS u1, u2, u3, c1, c2, c3, k1, k2

Udp(n) == [build |-> n, maps |-> {k1}, caps |-> {"udp"}]
Eos == [build |-> 1, maps |-> {k1}, caps |-> {"eos"}]
OtherMap == [build |-> 1, maps |-> {k2}, caps |-> {"udp"}]

Duel(types) ==
    [clients |-> {c1, c2}, users |-> {}, types |-> types, manifests |-> {Udp(1)},
     signed |-> {<<c1, u1>>, <<c2, u2>>}, matches |-> 2]

\* From the first connection on; a player may come back on another one.
Returning == [Duel({"map_manifest", "join_queue", "match", "report", "rematch", "time"})
              EXCEPT !.clients = {c1, c2, c3}, !.users = {u1, u2},
                     !.signed = {}, !.matches = 1]
\* Games and rematches from either queue.
Ranked == Duel({"join_queue", "join_ranked", "match", "report", "rematch", "time"})
\* Challenges among friends who fall out, and what is left to play again.
Friends == [Duel({"challenge", "friend_block", "match", "rematch", "time"})
            EXCEPT !.matches = 1]
Falling == [Duel({"challenge", "friend_block", "friend", "time"}) EXCEPT !.matches = 1]
\* EOS matches, with identities that change.
Verified == [Duel({"join_queue", "match", "rematch", "eos_puid_proof"})
             EXCEPT !.manifests = {Eos}]
\* Builds, maps and blocks that keep two queued players apart.
Unlike == [Duel({"map_manifest", "join_queue", "join_ranked", "friend_block"})
           EXCEPT !.manifests = {Udp(0), Udp(1), Udp(2), OtherMap}, !.matches = 1]
\* A third player between two others.
Three == [Duel({"challenge", "match", "rematch"})
          EXCEPT !.clients = {c1, c2, c3},
                 !.signed = {<<c1, u1>>, <<c2, u2>>, <<c3, u3>>}]

MCTraffic == {Returning, Ranked, Friends, Falling, Verified, Unlike, Three}

\* For the timers: two builds, one match.
Timed == [Duel({"map_manifest", "join_queue", "match", "report", "time"})
          EXCEPT !.manifests = {Udp(1), Udp(2)}, !.matches = 1]
MCTimed == {Timed}

\* The first two players are interchangeable, with their connections.
MCSwap == {p \in Permutations({u1, u2, c1, c2}) :
            p[u1] \in {u1, u2} /\ (p[c1] = c1 <=> p[u1] = u1) /\ (p[c1] = c2 <=> p[u1] = u2)}
=============================================================================
