-------------------------- MODULE MCSplitHTTPDial --------------------------
(* Instantiation of SplitHTTPDial for TLC.  Two permits and a pipe limit of *)
(* one item let a full pipe block a Write while two POSTs are in flight;    *)
(* four Writes give batches of one and of several items.                    *)
EXTENDS SplitHTTPDial

MCMaxConcurrentUploads == 2
MCMaxUploadSize == 1
MCMaxWrites == 4
=============================================================================
