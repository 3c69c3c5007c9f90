----------------------------- MODULE MCAnalyzer -----------------------------
(* The analyzer with a small table and one packet, an object in an object. *)
EXTENDS Analyzer

NestedPacket == {<<"nl", "{", "{", "}", "}">>}

\* The theorems about framed packets speak of this instance, unless a line
\* feed may be sent alone.
ASSUME MCFraming == FirstSegment > 1 => Framing
=============================================================================
