---------------------------- MODULE MCFileServer ----------------------------
(***************************************************************************)
(* Values of FileServer for TLC: a file of one and a half chunks under a,  *)
(* one of exactly one chunk under b, none under the root that is too long  *)
(* for an IPC message.                                                     *)
(***************************************************************************)
EXTENDS FileServer

MCSize == "a" :> 3 @@ "b" :> 2

MCInitialRoots == { << "long", "a" >> }
=============================================================================
