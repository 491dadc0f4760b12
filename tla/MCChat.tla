------------------------------- MODULE MCChat -------------------------------
(***************************************************************************)
(* Instances of ChatStreams: one conversation, and small mixes of streams.  *)
(***************************************************************************)
EXTENDS ChatStreams

CONSTANTS c1, s1, s2, r1, b1, b2

MCConv == {c1}
MCSends == {s1, s2}
MCRuns == {r1}
MCBatch == <<b1, b2>>
MCStreams == {s1, s2, r1, b1, b2}
MCWriter == MCStreams \cup {Client}

\* Two sends; a send beside the browser, with a stop; a send beside a run; a run
\* beside the browser, with a stop; a dispatch beside the browser.
Mix(streams, sent, posts, ends, halts) ==
    [streams |-> streams, deltas |-> sent, turns |-> posts, fates |-> ends, stops |-> halts]
MCMixes == {Mix({s1, s2}, 0, 0, {"delete"}, 0), Mix({s1}, 1, 1, Fate, 1),
            Mix({s1, r1}, 0, 0, {}, 0), Mix({r1}, 1, 1, Fate, 1),
            Mix({b1, b2}, 0, 1, {"archive"}, 0)}
BatchMix == {Mix({b1, b2}, 0, 1, {}, 0)}
MCClientStatus == {"streaming", "complete"}
=============================================================================
