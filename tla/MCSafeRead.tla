----------------------------- MODULE MCSafeRead -----------------------------
(* Grants, paths and templates for safe-read, and grants for grant-read.     *)
EXTENDS GrantRead

(* Everything granted, or one capability forgotten.                          *)
MCGrants == {SafeReadCaps} \cup {SafeReadCaps \ {cap} : cap \in SafeReadCaps}

Top == [path |-> <<>>, type |-> "FTW_D", readable |-> TRUE]
E(path, type, readable) == [path |-> path, type |-> type, readable |-> readable]

(* A plain template; one with what cannot be read; one that collides with a  *)
(* device, one that reaches into /a, where src is.                           *)
MCTemplates == {
    <<Top, E(<<"/", "etc">>, "FTW_D", TRUE), E(<<"/", "etc", "/", "hosts">>, "FTW_F", TRUE)>>,
    <<Top, E(<<"/", "link">>, "FTW_SL", TRUE), E(<<"/", "lost">>, "FTW_NS", FALSE),
      E(<<"/", "secret">>, "FTW_F", FALSE)>>,
    <<Top, E(<<"/", "etc">>, "FTW_DNR", FALSE)>>,
    <<Top, E(<<"/", "dev">>, "FTW_D", TRUE), E(<<"/", "dev", "/", "null">>, "FTW_F", TRUE)>>,
    <<Top, E(<<"/", "a">>, "FTW_D", TRUE), E(<<"/", "a", "/", "g">>, "FTW_F", TRUE),
      E(<<"/", "a", "/", "f">>, "FTW_F", TRUE)>>}

MCSrcs == {<<"/", "a">>, <<"/", "a", "/", "b", "/">>, <<"/", "/">>, <<"/", "dev">>,
           <<"a">>, <<"/", "a", "/", "..">>, <<"/", ".", "/", "a">>}

MCJobs == [program : {"safe-read"}, src : MCSrcs, security : BOOLEAN, template : MCTemplates,
           writable : BOOLEAN, granted : MCGrants]

MCGrantReadGrants == SUBSET GrantReadCaps

(* --reading /                                                               *)
MCJobsRoot == {[j EXCEPT !.src = <<"/">>] : j \in MCJobs}
=============================================================================
