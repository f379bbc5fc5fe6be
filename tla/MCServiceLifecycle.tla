------------------------ MODULE MCServiceLifecycle ------------------------
\* Instances of ServiceLifecycle for TLC.
EXTENDS ServiceLifecycle

CONSTANTS c1, c2

\* One command after another with everything around it going wrong, and two
\* installs at once next to another vendor.
MCScenes ==
  { [commands |-> {c1}, kinds |-> {"install", "uninstall"}, faults |-> AllFaults],
    [commands |-> {c1, c2}, kinds |-> {"install"}, faults |-> {"vendor"}] }
===========================================================================
