--------------------------- MODULE MCCrawlPipeline ---------------------------
(***************************************************************************)
(* Instances of the pipeline for TLC.                                      *)
(***************************************************************************)
EXTENDS CrawlPipeline, TLC

\* Hosts run the same program, and so do publishers.  Only safety runs use a symmetry.
HostSymmetry == Permutations(Host)
PublisherSymmetry == Permutations(Publisher)

=============================================================================
