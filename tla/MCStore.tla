------------------------------ MODULE MCStore -------------------------------
(* Small instances of Store for TLC.                                        *)
EXTENDS Store

(* One record, or a large one and a small one.                              *)
MCShapes == {<<1>>, <<2, 1>>}

(* One small record, or one that outweighs a whole small transaction.       *)
MCUnevenShapes == {<<1>>, <<7>>}
=============================================================================
