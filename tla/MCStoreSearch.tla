---------------------------- MODULE MCStoreSearch ----------------------------
(* An instance of StoreSearch for TLC: two devices, the first with two types. *)
EXTENDS StoreSearch, TLC

CONSTANTS w1, w2

MCWorkers == {w1, w2}
MCDeviceOf == <<1, 1, 2>>
MCTypeOf == <<"config", "inventory", "config">>
MCContent == <<(<<1, 3>>), (<<Unfit>>), (<<2>>)>>
MCStarts == {<<1, 0, 1>>, <<2, 1, 1>>}
MCHealths == {<<"good", "good">>, <<"torn", "good">>, <<"good", "lost">>, <<"lost", "lost">>}
MCWants == {{}, {"config"}}
=============================================================================
