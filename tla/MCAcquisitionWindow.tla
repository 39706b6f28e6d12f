------------------------ MODULE MCAcquisitionWindow -------------------------
(* A synchronous built-in decoder, a coroutine, and third-party ones: with a *)
(* name of its own, with a built-in's as entry point or as plugin, with one  *)
(* that another uses, and one that does not load.  The third-party provider  *)
(* also answers for a device that is heard.                                  *)
EXTENDS AcquisitionWindow, TLC

Entry(name, plugin, loads) == [name |-> name, plugin |-> plugin, loads |-> loads]
MCEntryPoints == {<<>>, <<Entry("acme", "acme", TRUE)>>,
    <<Entry("ruuvi", "acme", TRUE), Entry("acme", "ruuvi", TRUE)>>,
    <<Entry("acme", "acme", FALSE), Entry("other", "acme", TRUE), Entry("more", "acme", TRUE)>>}
MCCloudEntryPoints == {<<>>, <<Entry("tuya-cloud", "x-cloud", TRUE), Entry("x-cloud", "x-cloud", TRUE)>>}
MCBuiltIn == <<"ruuvi", "airthings">>
MCBuiltInCloud == <<"tuya-cloud">>
MCReads == "tuya-cloud" :> {"t1"} @@ "x-cloud" :> {"t1", "d1", "x1"}
=============================================================================
