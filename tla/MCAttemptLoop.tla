---------------------------- MODULE MCAttemptLoop ----------------------------
(* Instances of AttemptLoop for TLC. *)
EXTENDS AttemptLoop, TLC

CONSTANTS r1, r2, a1, a2, b1, s1, chA, chB, key, site

TwoRequests == {r1, r2}

\* Channel A has two grants and channel B one, of the same credential; a site has
\* a channel of its own.  The models of the two requests share some of them.
FourCandidates == {a1, a2, b1, s1}
RouteMap == r1 :> {a1, a2, s1} @@ r2 :> {a1, b1, s1}
TwoChannels == {chA, chB}
TwoScopes == {key, site}
ChannelMap == a1 :> chA @@ a2 :> chA @@ b1 :> chB @@ s1 :> NoChannel
ScopeMap == a1 :> key @@ a2 :> key @@ b1 :> key @@ s1 :> site
PermitMap == chA :> 1 @@ chB :> 0
SlotMap == key :> 1 @@ site :> 1
EndpointMap == a1 :> 2 @@ a2 :> 1 @@ b1 :> 1 @@ s1 :> 1
=============================================================================
