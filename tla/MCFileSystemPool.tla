-------------------------- MODULE MCFileSystemPool --------------------------
(* Two file systems; a third call finds both leased.  Streams emit one final  *)
(* event, or their end and then an error.                                     *)
EXTENDS FileSystemPool, TLC

CONSTANTS f1, f2

MCFileSystems == {f1, f2}
MCFss == <<f1, f2>>
MCEndings == {<<"end">>, <<"error">>, <<"end", "error">>}
=============================================================================
