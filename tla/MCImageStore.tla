---------------------------- MODULE MCImageStore ----------------------------
(* ImageStore on small instances: two images, in two documents that share them *)
(* while users delete images; in one, with everything that may go wrong in one *)
(* save at a time; and in one with saves that overlap, or fail.                *)
EXTENDS ImageStore

CONSTANTS d1, d2, s1, s2

MCDocs == {d1, d2}
MCSavers == {s1, s2}
MCModes == {[documents |-> {d1, d2}, savers |-> {s1}, hazards |-> {"deletes"}],
            [documents |-> {d1}, savers |-> {s1}, hazards |-> Hazards],
            [documents |-> {d1}, savers |-> {s1, s2}, hazards |-> {"failures"}]}
MCNothingElse == {[documents |-> {d1, d2}, savers |-> {s1}, hazards |-> {}]}
=============================================================================
