-------------------------- MODULE MCIpcConversation --------------------------
EXTENDS IpcConversation

\* Every client function except PlasmaClient::OnDelete.
MCAnsweredCalls == DOMAIN CallTable \ {"PlasmaClient::OnDelete"}

\* PlasmaClient::OnDelete alone.
MCDeleteCalls == {"PlasmaClient::OnDelete"}

=============================================================================
