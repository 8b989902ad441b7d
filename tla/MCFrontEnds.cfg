SPECIFICATION Spec
INVARIANTS TypeOK PhoneInStep NonePassedOver ClientSeesAnswer StopgapNotCached FollowUpSeesHistory
           PipelinesAccounted MdfReadsRows AlgorithmsAgree
PROPERTIES ConversationsKept EverythingEnds
CHECK_DEADLOCK FALSE
