----------------------------- MODULE MCRuntimeHost -----------------------------
(* Small instances of RuntimeHost for TLC. *)
EXTENDS RuntimeHostProperties

CONSTANTS a1, a2, user, dm, peers, team, calls

TheMembers == dm :> {user, a1} @@ peers :> {a1, a2} @@ team :> {user, a1, a2}
              @@ calls :> {user, a1, a2}

\* Sends a message to a conversation, and ends the turn or goes on.
say(c, to, finish) == [kind |-> "send", conv |-> c, to |-> to, finish |-> finish]
Silent == [kind |-> "silent"]
Go     == [kind |-> "go"]
Bad    == [kind |-> "bad"]
post(c, to) == [conv |-> c, to |-> to]

\* Two agents that talk to one another about one message of the user.
Talk ==
  [runs |-> 1, maxBatch |-> 2, auto |-> 2, rounds |-> 2, retries |-> 0, repeats |-> 5,
   recentMessages |-> 9, compactAfter |-> 9, fits |-> 9, maxSummaryAttempts |-> 1,
   words |-> {say(peers, {}, TRUE), say(team, {a1}, FALSE), say(calls, {a1}, TRUE)},
   posts |-> {post(team, {a2})},
   messages |-> 1, crashes |-> 0, stops |-> 1, resumes |-> 0]

\* One agent whose model and user make trouble.
Trouble ==
  [runs |-> 1, maxBatch |-> 1, auto |-> 2, rounds |-> 2, retries |-> 1, repeats |-> 2,
   recentMessages |-> 9, compactAfter |-> 9, fits |-> 9, maxSummaryAttempts |-> 1,
   words |-> {say(dm, {}, TRUE), say(calls, {}, FALSE), Go, Bad},
   posts |-> {post(dm, {})},
   messages |-> 1, crashes |-> 1, stops |-> 2, resumes |-> 2]

\* Two agents that summarise the conversation they share.
Rivals ==
  [runs |-> 2, maxBatch |-> 1, auto |-> 1, rounds |-> 2, retries |-> 0, repeats |-> 5,
   recentMessages |-> 2, compactAfter |-> 1, fits |-> 1, maxSummaryAttempts |-> 1,
   words |-> {Silent}, posts |-> {post(team, {})},
   messages |-> 2, crashes |-> 0, stops |-> 0, resumes |-> 0]

\* One agent that summarises, in a process that dies, for a user who stops it.
Recall ==
  [runs |-> 1, maxBatch |-> 2, auto |-> 1, rounds |-> 3, retries |-> 0, repeats |-> 5,
   recentMessages |-> 2, compactAfter |-> 1, fits |-> 1, maxSummaryAttempts |-> 2,
   words |-> {Silent}, posts |-> {post(dm, {})},
   messages |-> 2, crashes |-> 1, stops |-> 2, resumes |-> 0]

AllWorlds == {Talk, Trouble, Rivals, Recall}
================================================================================
