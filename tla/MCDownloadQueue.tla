-------------------------- MODULE MCDownloadQueue --------------------------
(* DownloadQueue on one or two rows and a few aria2 downloads. *)
EXTENDS DownloadQueue
=============================================================================
