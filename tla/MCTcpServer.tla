---- MODULE MCTcpServer ----
EXTENDS TcpServer
====
