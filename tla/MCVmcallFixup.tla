--------------------------- MODULE MCVmcallFixup ---------------------------
(***************************************************************************)
(* System calls on a small instance.  The program has a buffer, an array   *)
(* of two iovecs, a message header and an array of two pointers.  It knows *)
(* the buffer and the iovecs by their aliases, the others lie on its stack *)
(* or in its data.                                                         *)
(***************************************************************************)
EXTENDS VmcallFixup

CONSTANTS buffer, iovecs, header, argv

MCKind == buffer :> "FLAT_PTR" @@ iovecs :> "IOVEC" @@ header :> "MSGHDR"
            @@ argv :> "PTR_PTR"

\* readv gets a vector and its length, sendmsg a header, execve two
\* null-terminated arrays, which may be the same one; brk has no parameter
\* that is fixed up.
MCParams ==
  "readv" :> <<"NONE", "IOVEC", "NONE">> @@ "sendmsg" :> <<"NONE", "MSGHDR", "NONE">>
    @@ "execve" :> <<"NONE", "PTR_PTR", "PTR_PTR">>
    @@ "brk" :> <<"NONE">> @@ "brk above 4 GB" :> <<"NONE">>
=============================================================================
