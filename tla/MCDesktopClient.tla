-------------------------- MODULE MCDesktopClient --------------------------
EXTENDS DesktopClient, TLC

\* Two servers on one host, at two ports, and an address without TLS.
Server(scheme, port, path) == [scheme |-> scheme, host |-> "h", port |-> port, path |-> path]
MCUrls == {Server("https", 1, ""), Server("https", 2, ""), Server("http", 2, "")}
MCSymmetry == Permutations(Tasks)
=============================================================================
