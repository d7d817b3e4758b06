---- MODULE Uptime ----
\* What the trie, the parser and the plugins have in common: the workers, which
\* are threads of the one process of cgi_server_test, and how that process is.

CONSTANT Thread   \* the workers of the pool
CONSTANT NULL     \* the null pointer of C, whatever it should point to

VARIABLE process  \* it is "up", or has "exited" by exit(3), or a signal has
                  \* "crashed" it; then none of its threads takes a step

Up == process = "up"
====
