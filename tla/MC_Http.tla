------------------------------ MODULE MC_Http ------------------------------
(***************************************************************************)
(* Model-checking instance of HttpEngine: two CPUs, two clients, a         *)
(* document root with test.txt (an 8-byte name the kernel extracts whole)  *)
(* and static.html (longer than the kernel's 8-byte window).               *)
(***************************************************************************)
EXTENDS HttpEngine

GetP(n) == <<"G","E","T"," ","/">> \o n \o <<" ","H">>
TestTxt    == <<"t","e","s","t",".","t","x","t">>
StaticHtml == <<"s","t","a","t","i","c",".","h","t","m","l">>
XTxt       == <<"x",".","t","x","t">>
DotDot     == <<".",".","/","t","e","s","t">>

Frm(src, port, l3, p) ==
    [trunc |-> "none", l2 |-> "ipv4", l3 |-> l3, dport |-> port,
     src |-> src, payload |-> p]

\* Frames of the passing runs: GET of a cacheable file from either client,
\* a GET the existence heuristic rejects, a POST, a UDP datagram.
MCFrames ==
    { Frm(c, 8080, "tcp", GetP(TestTxt)) : c \in Clients }
    \cup { Frm(CHOOSE c \in Clients : TRUE, 8080, "tcp", GetP(XTxt)),
           Frm(CHOOSE c \in Clients : TRUE, 8080, "tcp",
               <<"P","O","S","T"," ","/","x"," ","H">>),
           Frm(CHOOSE c \in Clients : TRUE, 8080, "udp", GetP(TestTxt)) }

\* Frames of the main run: as above, with a request line of two words
\* (answered 400) in place of the POST.
MCHttpFrames ==
    { Frm(c, 8080, "tcp", GetP(TestTxt)) : c \in Clients }
    \cup { Frm(CHOOSE c \in Clients : TRUE, 8080, "tcp", GetP(XTxt)),
           Frm(CHOOSE c \in Clients : TRUE, 8080, "tcp", <<"G","E","T"," ","/">>),
           Frm(CHOOSE c \in Clients : TRUE, 8080, "udp", GetP(TestTxt)) }

\* Frames of the document-root run: GETs of a cacheable and of a forbidden
\* name, and a POST.
MCDocRootFrames ==
    { Frm(c, 8080, "tcp", GetP(TestTxt)) : c \in Clients }
    \cup { Frm(CHOOSE c \in Clients : TRUE, 8080, "tcp", GetP(DotDot)),
           Frm(CHOOSE c \in Clients : TRUE, 8080, "tcp",
               <<"P","O","S","T"," ","/","x"," ","H">>) }

\* Frames of the key-mismatch run: GETs of static.html.
MCStaticFrames == { Frm(c, 8080, "tcp", GetP(StaticHtml)) : c \in Clients }

\* Frames of the element-reuse run: GETs of test.txt.
MCTestFrames == { Frm(c, 8080, "tcp", GetP(TestTxt)) : c \in Clients }

\* Frames of the traversal run: GET /../test.
MCDotDotFrames == { Frm(c, 8080, "tcp", GetP(DotDot)) : c \in Clients }

MCFileNames == {TestTxt, StaticHtml, XTxt, DotDot}

\* Document root of the passing runs: the names their frames ask for.
MCServedNames == {TestTxt, XTxt}
\* test.txt is exactly MAX_PACKET_SIZE bytes long and cacheable, x.txt is
\* one byte longer.
MCServedDisk0 == TestTxt :> 1024 @@ XTxt :> 1025
\* Document root of the document-root run: the forbidden name exists and is
\* larger than MAX_PACKET_SIZE.
MCDocRootNames == {TestTxt, DotDot}
MCDocRootDisk0 == TestTxt :> 100 @@ DotDot :> 1025
\* Document root of the element-reuse run.
MCTestNames == {TestTxt}
MCTestDisk0 == TestTxt :> 1024
MCDisk0 == [n \in MCFileNames |-> 100]
\* A file may shrink below the size it was stat()ed at.
MCSizes == {50, 100}

\* The CPUs run the same program: runs without liveness use symmetry.
MCSymmetry == Permutations(CPUs)
=============================================================================
