------------------------------ MODULE MCCrawler ------------------------------
(***************************************************************************)
(* Three threads and one host.                                             *)
(***************************************************************************)
EXTENDS CrawlerInv

CONSTANTS d1, d2, d3, host
=============================================================================
