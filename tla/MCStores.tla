------------------------------ MODULE MCStores ------------------------------
(***************************************************************************)
(* What the programs keep for later, each in a store of its own: the model    *)
(* library of the gateway (single downloads, bundles and conversions into one *)
(* directory), the conversation of a slot of glm on disk, and the paged KV    *)
(* pool of the native decoder.  Nothing is shared between them, as long as no *)
(* download is named like a conversion's staged file: a behaviour follows one *)
(* (focus).                                                                  *)
(***************************************************************************)
EXTENDS Download, Conversion, KVFile, PagedKV

VARIABLE focus

pageVars == <<freeStack, table, mem>>
storesVars == <<downloadVars, conversionVars, kvVars, pageVars, focus>>

StoresInit ==
  /\ focus \in {"file", "bundle", "conversion", "conversation", "pages"}
  /\ DInit /\ ConversionInit /\ KInit /\ Init

StoresNext ==
  /\ \/ focus = "file"   /\ (FileRequest \/ DownloadNext) /\ UNCHANGED <<conversionVars, kvVars, pageVars>>
     \/ focus = "bundle" /\ (BundleRequest \/ DownloadNext) /\ UNCHANGED <<conversionVars, kvVars, pageVars>>
     \/ focus = "conversion" /\ ConversionNext /\ UNCHANGED <<downloadVars, kvVars, pageVars>>
     \/ focus = "conversation" /\ KNext /\ UNCHANGED <<downloadVars, conversionVars, pageVars>>
     \/ focus = "pages" /\ Next /\ UNCHANGED <<downloadVars, conversionVars, kvVars>>
  /\ UNCHANGED focus

\* The thread of a download goes on (a server that hangs is an error after 60 s),
\* and so do that of a conversion and its pool.
StoresFairness ==
  /\ WF_storesVars(Work /\ UNCHANGED <<conversionVars, kvVars, pageVars, focus>>)
  /\ WF_storesVars(ConversionWork /\ UNCHANGED <<downloadVars, kvVars, pageVars, focus>>)

StoresSpec == StoresInit /\ [][StoresNext]_storesVars /\ StoresFairness
-----------------------------------------------------------------------------
(* What the library holds under a model's name is whole: see each.            *)
LibraryIsWhole == DownloadsAreWhole /\ ConversionsAreWhole

(* Every job of the library ends: see each.                                  *)
JobsEnd == DownloadEnds /\ ConversionEnds
-----------------------------------------------------------------------------
(* Instances for TLC: one file that clients ask for with a size and a checksum, *)
(* from this machine, or by a link nobody approved; a bundle of a shard with a   *)
(* checksum and one without.                                                     *)
CONSTANTS shard1, shard2, t1, t2
MCBundle == <<shard1, shard2>>

Asks(provider, checked) ==
  [provider |-> provider, sha256 |-> checked, expected_size |-> checked, gated |-> FALSE,
   license_confirmed |-> FALSE, allowed_hosts |-> TRUE]
MCRequested == {Asks("huggingface", TRUE), Asks("local_file", FALSE),
                [Asks("direct_https", FALSE) EXCEPT !.allowed_hosts = FALSE]}
MCShards == [f \in {shard1, shard2} |-> [provider |-> "huggingface",
               sha256 |-> f = shard1, expected_size |-> FALSE]]
=============================================================================
